---- MODULE Spec2Model ----
(***************************************************************************)
(* The front end of chuff: the lexer of src/src/lexer/mod.rs and the       *)
(* parser of src/src/parser/mod.rs, with the static tables they use.       *)
(*                                                                         *)
(* Source text is a sequence of one-character strings; positions are       *)
(* 0-based offsets (the number of characters consumed), as in the spans of *)
(* src/src/span.rs.  Every parser combinator is an operator from an input  *)
(* and a position to a result record; the two drivers (the repetition of   *)
(* `token` in lexer(), the repetition of Ast::parser() in parser()) are    *)
(* the actions.                                                            *)
(*                                                                         *)
(* usize values (type sizes, array dimensions, Num) are kept as canonical  *)
(* decimal digit sequences, so that the 64-bit overflow of                 *)
(* `digits.parse().unwrap()` is decided exactly.                           *)
(***************************************************************************)
EXTENDS Integers, Sequences, FiniteSets, TLC

VARIABLES
    src,      \* lexer input: the source characters
    lpos,     \* lexer position
    ltoks,    \* spanned tokens produced so far
    ldiags,   \* number of diagnostics (Simple<char> errors) collected
    lstatus,  \* "start" | "tokens" | "ok" | "failed" | "panicked"
    ptoks,    \* parser input: the token sequence
    ppos,     \* parser position
    stmts,    \* statements produced so far
    perrs,    \* number of diagnostics (Simple<Token> errors) collected
    pstatus   \* "idle" | "parsing" | "ok" | "failed"

lvars == <<src, lpos, ltoks, ldiags, lstatus>>
pvars == <<ptoks, ppos, stmts, perrs, pstatus>>
vars == <<src, lpos, ltoks, ldiags, lstatus, ptoks, ppos, stmts, perrs, pstatus>>

(***************************************************************************)
(* Characters                                                              *)
(***************************************************************************)
Range(q) == {q[i] : i \in DOMAIN q}

\* `let v = ...; body`: the value is computed once and named in the body
Bind(v, Body(_)) == Body(v)

Lower == Range(<<"a","b","c","d","e","f","g","h","i","j","k","l","m","n","o","p","q","r","s","t","u","v","w","x","y","z">>)
Upper == Range(<<"A","B","C","D","E","F","G","H","I","J","K","L","M","N","O","P","Q","R","S","T","U","V","W","X","Y","Z">>)
Dec == Range(<<"0","1","2","3","4","5","6","7","8","9">>)
Hex == Dec \cup Range(<<"a","b","c","d","e","f","A","B","C","D","E","F">>)
\* text::ident: [A-Za-z_][A-Za-z0-9_]*
IdentStart == Lower \cup Upper \cup {"_"}
IdentCont == IdentStart \cup Dec
\* lex_non_newline_whitespace: one_of("\t ")
OtherWhitespace == {"\t", " "}
\* char::is_whitespace, which `.padded()` skips
Whitespace == {" ", "\t", "\n", "\r", "\f"}

RECURSIVE SkipWhile(_, _, _)
SkipWhile(s, p, C) ==
    IF p < Len(s) /\ s[p + 1] \in C THEN SkipWhile(s, p + 1, C) ELSE p

StartsWith(s, p, w) == p + Len(w) <= Len(s) /\ SubSeq(s, p + 1, p + Len(w)) = w

\* text::ident at p: the end of the identifier, or -1
IdentEnd(s, p) ==
    IF p < Len(s) /\ s[p + 1] \in IdentStart THEN SkipWhile(s, p + 1, IdentCont) ELSE -1

\* text::digits(radix) at p (at least one digit): the end of the run, or -1
DigitsEnd(s, p, C) ==
    IF p < Len(s) /\ s[p + 1] \in C THEN SkipWhile(s, p + 1, C) ELSE -1

\* text::keyword(kw): an identifier that is exactly kw
KeywordEnd(s, p, kw) ==
    LET e == IdentEnd(s, p)
    IN IF e # -1 /\ SubSeq(s, p + 1, e) = kw THEN e ELSE -1

\* key(kw) == text::keyword(kw).padded()
key(s, p, kw) ==
    LET e == KeywordEnd(s, SkipWhile(s, p, Whitespace), kw)
    IN IF e = -1 THEN -1 ELSE SkipWhile(s, e, Whitespace)

(***************************************************************************)
(* usize                                                                   *)
(***************************************************************************)
\* usize::MAX on a 64-bit target
UsizeMax == <<"1","8","4","4","6","7","4","4","0","7","3","7","0","9","5","5","1","6","1","5">>

DigitVal(c) ==
    CASE c = "0" -> 0 [] c = "1" -> 1 [] c = "2" -> 2 [] c = "3" -> 3
      [] c = "4" -> 4 [] c = "5" -> 5 [] c = "6" -> 6 [] c = "7" -> 7
      [] c = "8" -> 8 [] c = "9" -> 9
      [] c \in {"a", "A"} -> 10 [] c \in {"b", "B"} -> 11
      [] c \in {"c", "C"} -> 12 [] c \in {"d", "D"} -> 13
      [] c \in {"e", "E"} -> 14 [] c \in {"f", "F"} -> 15

RECURSIVE StripZeros(_)
StripZeros(ds) ==
    IF Len(ds) > 1 /\ ds[1] = "0" THEN StripZeros(Tail(ds)) ELSE ds

\* a <= b for digit sequences of the same length
RECURSIVE DigitsLE(_, _)
DigitsLE(a, b) ==
    IF a = <<>> THEN TRUE
    ELSE IF DigitVal(a[1]) < DigitVal(b[1]) THEN TRUE
    ELSE IF DigitVal(a[1]) > DigitVal(b[1]) THEN FALSE
    ELSE DigitsLE(Tail(a), Tail(b))

FitsUsize(c) ==
    Len(c) < Len(UsizeMax) \/ (Len(c) = Len(UsizeMax) /\ DigitsLE(c, UsizeMax))

\* str::parse::<usize>: Err on a non-decimal digit and on overflow
ParseUsize(ds) ==
    IF ds # <<>> /\ (\A i \in DOMAIN ds : ds[i] \in Dec) /\ FitsUsize(StripZeros(ds))
    THEN [ok |-> TRUE, v |-> StripZeros(ds)]
    ELSE [ok |-> FALSE, v |-> <<"0">>]

(***************************************************************************)
(* Tokens (src/src/lexer/token.rs)                                         *)
(*   t: the variant; s: its text; k: opcode or primitive type; n: a usize; *)
(*   a: array dimensions; b: the 32 bytes of a Literal                     *)
(***************************************************************************)
Tok(t) == [t |-> t, s |-> <<>>, k |-> "", n |-> <<>>, a |-> <<>>, b |-> <<>>]
TokS(t, s) == [Tok(t) EXCEPT !.s = s]
NoTok == Tok("")

\* results of the character parsers
LFail == [ok |-> FALSE, e |-> 0, tok |-> NoTok, errs |-> 0, panic |-> FALSE]
LPanic == [ok |-> FALSE, e |-> 0, tok |-> NoTok, errs |-> 0, panic |-> TRUE]
LOk(e, tok) == [ok |-> TRUE, e |-> e, tok |-> tok, errs |-> 0, panic |-> FALSE]

\* a.or(b) on characters.  The second parser runs unless the first one
\* succeeded without emitting an error; a panic in a parser that runs ends
\* the program.
LOr(a, b) ==
    IF a.panic THEN a
    ELSE IF a.ok /\ a.errs = 0 THEN a
    ELSE IF b.panic THEN b
    ELSE IF b.ok /\ b.errs = 0 THEN b
    ELSE IF a.ok THEN a
    ELSE b

(***************************************************************************)
(* Static symbol tables                                                    *)
(***************************************************************************)
OPCODES_MAP == <<
    <<<<"l","t">>, "Lt">>,
    <<<<"g","t">>, "Gt">>,
    <<<<"s","l","t">>, "Slt">>,
    <<<<"s","g","t">>, "Sgt">>,
    <<<<"e","q">>, "Eq">>,
    <<<<"i","s","z","e","r","o">>, "Iszero">>,
    <<<<"a","n","d">>, "And">>,
    <<<<"o","r">>, "Or">>,
    <<<<"x","o","r">>, "Xor">>,
    <<<<"n","o","t">>, "Not">>,
    <<<<"s","h","a","3">>, "Sha3">>,
    <<<<"a","d","d","r","e","s","s">>, "Address">>,
    <<<<"b","a","l","a","n","c","e">>, "Balance">>,
    <<<<"o","r","i","g","i","n">>, "Origin">>,
    <<<<"c","a","l","l","e","r">>, "Caller">>,
    <<<<"c","a","l","l","v","a","l","u","e">>, "Callvalue">>,
    <<<<"c","a","l","l","d","a","t","a","l","o","a","d">>, "Calldataload">>,
    <<<<"c","a","l","l","d","a","t","a","s","i","z","e">>, "Calldatasize">>,
    <<<<"c","a","l","l","d","a","t","a","c","o","p","y">>, "Calldatacopy">>,
    <<<<"c","o","d","e","s","i","z","e">>, "Codesize">>,
    <<<<"c","o","d","e","c","o","p","y">>, "Codecopy">>,
    <<<<"b","a","s","e","f","e","e">>, "Basefee">>,
    <<<<"b","l","o","c","k","h","a","s","h">>, "Blockhash">>,
    <<<<"c","o","i","n","b","a","s","e">>, "Coinbase">>,
    <<<<"t","i","m","e","s","t","a","m","p">>, "Timestamp">>,
    <<<<"n","u","m","b","e","r">>, "Number">>,
    <<<<"d","i","f","f","i","c","u","l","t","y">>, "Difficulty">>,
    <<<<"p","r","e","v","r","a","n","d","a","o">>, "Prevrandao">>,
    <<<<"g","a","s","l","i","m","i","t">>, "Gaslimit">>,
    <<<<"c","h","a","i","n","i","d">>, "Chainid">>,
    <<<<"s","e","l","f","b","a","l","a","n","c","e">>, "Selfbalance">>,
    <<<<"p","o","p">>, "Pop">>,
    <<<<"m","l","o","a","d">>, "Mload">>,
    <<<<"m","s","t","o","r","e">>, "Mstore">>,
    <<<<"m","s","t","o","r","e","8">>, "Mstore8">>,
    <<<<"s","l","o","a","d">>, "Sload">>,
    <<<<"s","s","t","o","r","e">>, "Sstore">>,
    <<<<"j","u","m","p">>, "Jump">>,
    <<<<"j","u","m","p","i">>, "Jumpi">>,
    <<<<"p","c">>, "Pc">>,
    <<<<"m","s","i","z","e">>, "Msize">>,
    <<<<"p","u","s","h","1">>, "Push1">>,
    <<<<"p","u","s","h","2">>, "Push2">>,
    <<<<"p","u","s","h","3">>, "Push3">>,
    <<<<"p","u","s","h","4">>, "Push4">>,
    <<<<"p","u","s","h","5">>, "Push5">>,
    <<<<"p","u","s","h","6">>, "Push6">>,
    <<<<"p","u","s","h","7">>, "Push7">>,
    <<<<"p","u","s","h","8">>, "Push8">>,
    <<<<"p","u","s","h","9">>, "Push9">>,
    <<<<"p","u","s","h","1","0">>, "Push10">>,
    <<<<"p","u","s","h","1","7">>, "Push17">>,
    <<<<"p","u","s","h","1","8">>, "Push18">>,
    <<<<"p","u","s","h","1","9">>, "Push19">>,
    <<<<"p","u","s","h","2","0">>, "Push20">>,
    <<<<"p","u","s","h","2","1">>, "Push21">>,
    <<<<"p","u","s","h","2","2">>, "Push22">>,
    <<<<"p","u","s","h","2","3">>, "Push23">>,
    <<<<"p","u","s","h","2","4">>, "Push24">>,
    <<<<"p","u","s","h","2","5">>, "Push25">>,
    <<<<"p","u","s","h","2","6">>, "Push26">>,
    <<<<"d","u","p","1">>, "Dup1">>,
    <<<<"d","u","p","2">>, "Dup2">>,
    <<<<"d","u","p","3">>, "Dup3">>,
    <<<<"d","u","p","4">>, "Dup4">>,
    <<<<"d","u","p","5">>, "Dup5">>,
    <<<<"d","u","p","6">>, "Dup6">>,
    <<<<"d","u","p","7">>, "Dup7">>,
    <<<<"d","u","p","8">>, "Dup8">>,
    <<<<"d","u","p","9">>, "Dup9">>,
    <<<<"d","u","p","1","0">>, "Dup10">>,
    <<<<"s","w","a","p","1">>, "Swap1">>,
    <<<<"s","w","a","p","2">>, "Swap2">>,
    <<<<"s","w","a","p","3">>, "Swap3">>,
    <<<<"s","w","a","p","4">>, "Swap4">>,
    <<<<"s","w","a","p","5">>, "Swap5">>,
    <<<<"s","w","a","p","6">>, "Swap6">>,
    <<<<"s","w","a","p","7">>, "Swap7">>,
    <<<<"s","w","a","p","8">>, "Swap8">>,
    <<<<"s","w","a","p","9">>, "Swap9">>,
    <<<<"s","w","a","p","1","0">>, "Swap10">>,
    <<<<"s","t","o","p">>, "Stop">>,
    <<<<"a","d","d">>, "Add">>,
    <<<<"m","u","l">>, "Mul">>,
    <<<<"s","u","b">>, "Sub">>,
    <<<<"d","i","v">>, "Div">>,
    <<<<"s","d","i","v">>, "Sdiv">>,
    <<<<"m","o","d">>, "Mod">>,
    <<<<"s","m","o","d">>, "Smod">>,
    <<<<"a","d","d","m","o","d">>, "Addmod">>,
    <<<<"m","u","l","m","o","d">>, "Mulmod">>,
    <<<<"e","x","p">>, "Exp">>,
    <<<<"s","i","g","n","e","x","t","e","n","d">>, "Signextend">>,
    <<<<"b","y","t","e">>, "Byte">>,
    <<<<"s","h","l">>, "Shl">>,
    <<<<"s","h","r">>, "Shr">>,
    <<<<"s","a","r">>, "Sar">>,
    <<<<"g","a","s","p","r","i","c","e">>, "Gasprice">>,
    <<<<"e","x","t","c","o","d","e","s","i","z","e">>, "Extcodesize">>,
    <<<<"e","x","t","c","o","d","e","c","o","p","y">>, "Extcodecopy">>,
    <<<<"r","e","t","u","r","n","d","a","t","a","s","i","z","e">>, "Returndatasize">>,
    <<<<"r","e","t","u","r","n","d","a","t","a","c","o","p","y">>, "Returndatacopy">>,
    <<<<"e","x","t","c","o","d","e","h","a","s","h">>, "Extcodehash">>,
    <<<<"g","a","s">>, "Gas">>,
    <<<<"j","u","m","p","d","e","s","t">>, "Jumpdest">>,
    <<<<"p","u","s","h","1","1">>, "Push11">>,
    <<<<"p","u","s","h","1","2">>, "Push12">>,
    <<<<"p","u","s","h","1","3">>, "Push13">>,
    <<<<"p","u","s","h","1","4">>, "Push14">>,
    <<<<"p","u","s","h","1","5">>, "Push15">>,
    <<<<"p","u","s","h","1","6">>, "Push16">>,
    <<<<"p","u","s","h","2","7">>, "Push27">>,
    <<<<"p","u","s","h","2","8">>, "Push28">>,
    <<<<"p","u","s","h","2","9">>, "Push29">>,
    <<<<"p","u","s","h","3","0">>, "Push30">>,
    <<<<"p","u","s","h","3","1">>, "Push31">>,
    <<<<"p","u","s","h","3","2">>, "Push32">>,
    <<<<"d","u","p","1","1">>, "Dup11">>,
    <<<<"d","u","p","1","2">>, "Dup12">>,
    <<<<"d","u","p","1","3">>, "Dup13">>,
    <<<<"d","u","p","1","4">>, "Dup14">>,
    <<<<"d","u","p","1","5">>, "Dup15">>,
    <<<<"d","u","p","1","6">>, "Dup16">>,
    <<<<"s","w","a","p","1","1">>, "Swap11">>,
    <<<<"s","w","a","p","1","2">>, "Swap12">>,
    <<<<"s","w","a","p","1","3">>, "Swap13">>,
    <<<<"s","w","a","p","1","4">>, "Swap14">>,
    <<<<"s","w","a","p","1","5">>, "Swap15">>,
    <<<<"s","w","a","p","1","6">>, "Swap16">>,
    <<<<"l","o","g","0">>, "Log0">>,
    <<<<"l","o","g","1">>, "Log1">>,
    <<<<"l","o","g","2">>, "Log2">>,
    <<<<"l","o","g","3">>, "Log3">>,
    <<<<"l","o","g","4">>, "Log4">>,
    <<<<"t","l","o","a","d">>, "TLoad">>,
    <<<<"t","s","t","o","r","e">>, "TStore">>,
    <<<<"c","r","e","a","t","e">>, "Create">>,
    <<<<"c","a","l","l">>, "Call">>,
    <<<<"c","a","l","l","c","o","d","e">>, "Callcode">>,
    <<<<"r","e","t","u","r","n">>, "Return">>,
    <<<<"d","e","l","e","g","a","t","e","c","a","l","l">>, "Delegatecall">>,
    <<<<"s","t","a","t","i","c","c","a","l","l">>, "Staticcall">>,
    <<<<"c","r","e","a","t","e","2">>, "Create2">>,
    <<<<"r","e","v","e","r","t">>, "Revert">>,
    <<<<"i","n","v","a","l","i","d">>, "Invalid">>,
    <<<<"s","e","l","f","d","e","s","t","r","u","c","t">>, "Selfdestruct">>
>>

OpcodeKeys == {e[1] : e \in Range(OPCODES_MAP)}
\* OPCODES_MAP.get(key)
OpcodeOf(key_) == (CHOOSE e \in Range(OPCODES_MAP) : e[1] = key_)[2]

(***************************************************************************)
(* The token parsers of lexer()                                            *)
(***************************************************************************)
lex_define(s, p) ==
    IF p < Len(s) /\ s[p + 1] = "#" /\ key(s, p + 1, <<"d","e","f","i","n","e">>) # -1
    THEN LOk(key(s, p + 1, <<"d","e","f","i","n","e">>), Tok("Define"))
    ELSE LFail

lex_include(s, p) ==
    IF p < Len(s) /\ s[p + 1] = "#" /\ key(s, p + 1, <<"i","n","c","l","u","d","e">>) # -1
    THEN LOk(key(s, p + 1, <<"i","n","c","l","u","d","e">>), Tok("Include"))
    ELSE LFail

lex_free_storage_pointer(s, p) ==
    IF key(s, p, <<"F","R","E","E","_","S","T","O","R","A","G","E","_","P","O","I","N","T","E","R">>) # -1
    THEN LOk(key(s, p, <<"F","R","E","E","_","S","T","O","R","A","G","E","_","P","O","I","N","T","E","R">>), Tok("FreeStoragePointer"))
    ELSE LFail

lex_operators(s, p) ==
    IF p >= Len(s) THEN LFail
    ELSE LET c == s[p + 1]
         IN CASE c = "=" -> LOk(p + 1, Tok("Assign"))
              [] c = "(" -> LOk(p + 1, Tok("OpenParen"))
              [] c = ")" -> LOk(p + 1, Tok("CloseParen"))
              [] c = "[" -> LOk(p + 1, Tok("OpenBracket"))
              [] c = "]" -> LOk(p + 1, Tok("CloseBracket"))
              [] c = "{" -> LOk(p + 1, Tok("OpenBrace"))
              [] c = "}" -> LOk(p + 1, Tok("CloseBrace"))
              [] c = "<" -> LOk(p + 1, Tok("LeftAngle"))
              [] c = ">" -> LOk(p + 1, Tok("RightAngle"))
              [] c = "," -> LOk(p + 1, Tok("Comma"))
              [] c = ":" -> LOk(p + 1, Tok("Colon"))
              [] OTHER -> LFail

\* str_to_bytes32: the hex digits right-aligned in 32 bytes, zero-extended
RECURSIVE HexPairs(_)
HexPairs(ds) ==
    IF ds = <<>> THEN <<>>
    ELSE <<16 * DigitVal(ds[1]) + DigitVal(ds[2])>> \o HexPairs(SubSeq(ds, 3, Len(ds)))

str_to_bytes32(num) ==
    HexPairs([i \in 1..(64 - Len(num)) |-> "0"] \o num)

LiteralLimit == 64

\* lex_literals with the limit taken as a number of bytes
lex_literals_bytes(s, p) ==
    IF StartsWith(s, p, <<"0","x">>) /\ DigitsEnd(s, p + 2, Hex) # -1
    THEN LET e == DigitsEnd(s, p + 2, Hex)
             num == SubSeq(s, p + 3, e)
         IN IF 2 * Len(num) < LiteralLimit
            THEN LOk(e, [Tok("Literal") EXCEPT !.b = str_to_bytes32(num)])
            ELSE LOk(e, TokS("Code", num))
    ELSE LFail

\* lex_literals with `<=` for `<`
lex_literals_inclusive(s, p) ==
    IF StartsWith(s, p, <<"0","x">>) /\ DigitsEnd(s, p + 2, Hex) # -1
    THEN LET e == DigitsEnd(s, p + 2, Hex)
             num == SubSeq(s, p + 3, e)
         IN IF Len(num) <= LiteralLimit
            THEN LOk(e, [Tok("Literal") EXCEPT !.b = str_to_bytes32(num)])
            ELSE LOk(e, TokS("Code", num))
    ELSE LFail

lex_literals(s, p) ==
    IF StartsWith(s, p, <<"0","x">>) /\ DigitsEnd(s, p + 2, Hex) # -1
    THEN LET e == DigitsEnd(s, p + 2, Hex)
             num == SubSeq(s, p + 3, e)
         IN IF Len(num) < LiteralLimit
            THEN LOk(e, [Tok("Literal") EXCEPT !.b = str_to_bytes32(num)])
            ELSE LOk(e, TokS("Code", num))
    ELSE LFail

lex_builtin_function(s, p) ==
    IF StartsWith(s, p, <<"_","_">>) /\ IdentEnd(s, p + 2) # -1
    THEN LOk(IdentEnd(s, p + 2), TokS("BuiltinFunction", SubSeq(s, p + 3, IdentEnd(s, p + 2))))
    ELSE LFail

\* results of the primitive-type parsers: k the type, n its size
PFail == [ok |-> FALSE, e |-> 0, k |-> "", n |-> <<>>, panic |-> FALSE]
PPanic == [PFail EXCEPT !.panic = TRUE]
POk(e, k, n) == [ok |-> TRUE, e |-> e, k |-> k, n |-> n, panic |-> FALSE]

POr(a, b) == IF a.panic \/ a.ok THEN a ELSE b

\* `kw` followed by text::digits(10), then digits.parse().unwrap()
SizedType(s, p, kw, k) ==
    IF StartsWith(s, p, kw) /\ DigitsEnd(s, p + Len(kw), Dec) # -1
    THEN LET e == DigitsEnd(s, p + Len(kw), Dec)
             v == ParseUsize(SubSeq(s, p + Len(kw) + 1, e))
         IN IF v.ok THEN POk(e, k, v.v) ELSE PPanic
    ELSE PFail

lex_uint(s, p) == SizedType(s, p, <<"u","i","n","t">>, "Uint")

lex_int(s, p) == SizedType(s, p, <<"i","n","t">>, "Int")

lex_bytes(s, p) ==
    IF StartsWith(s, p, <<"b","y","t","e","s">>)
    THEN IF DigitsEnd(s, p + 5, Dec) # -1
         THEN SizedType(s, p, <<"b","y","t","e","s">>, "Bytes")
         ELSE POk(p + 5, "DynBytes", <<>>)
    ELSE PFail

lex_abi_type(s, p) == POr(POr(lex_uint(s, p), lex_bytes(s, p)), lex_int(s, p))

PKeyword(s, p, kw, k) ==
    IF KeywordEnd(s, p, kw) # -1 THEN POk(KeywordEnd(s, p, kw), k, <<>>) ELSE PFail

\* lex_array: ('[' digits? ']').repeated(); a missing size is 0
RECURSIVE lex_array(_, _, _)
lex_array(s, p, dims) ==
    IF p < Len(s) /\ s[p + 1] = "["
    THEN LET d == DigitsEnd(s, p + 1, Dec)
             q == IF d = -1 THEN p + 1 ELSE d
             v == IF d = -1 THEN [ok |-> TRUE, v |-> <<"0">>]
                  ELSE ParseUsize(SubSeq(s, p + 2, d))
         IN IF q < Len(s) /\ s[q + 1] = "]"
            THEN IF v.ok THEN lex_array(s, q + 1, Append(dims, v.v))
                 ELSE [e |-> p, dims |-> dims, panic |-> TRUE]
            ELSE [e |-> p, dims |-> dims, panic |-> FALSE]
    ELSE [e |-> p, dims |-> dims, panic |-> FALSE]

lex_evm_type(s, p) ==
    Bind(POr(POr(POr(PKeyword(s, p, <<"b","o","o","l">>, "Bool"),
                     PKeyword(s, p, <<"s","t","r","i","n","g">>, "String")),
                 PKeyword(s, p, <<"a","d","d","r","e","s","s">>, "Address")),
             lex_abi_type(s, p)),
         LAMBDA prim :
            IF prim.panic THEN LPanic
            ELSE IF ~prim.ok THEN LFail
            ELSE Bind(lex_array(s, prim.e, <<>>),
                      LAMBDA arr :
                         IF arr.panic THEN LPanic
                         ELSE IF arr.dims = <<>>
                         THEN LOk(arr.e, [Tok("PrimitiveType") EXCEPT !.k = prim.k,
                                                                      !.n = prim.n])
                         ELSE LOk(arr.e, [Tok("ArrayType") EXCEPT !.k = prim.k,
                                                                  !.n = prim.n,
                                                                  !.a = arr.dims])))

\* the character a string escape stands for
UpperHex(c) ==
    CASE c = "a" -> "A" [] c = "b" -> "B" [] c = "c" -> "C"
      [] c = "d" -> "D" [] c = "e" -> "E" [] c = "f" -> "F" [] OTHER -> c

IsSurrogate_high(ds) == UpperHex(ds[1]) = "D" /\ DigitVal(ds[2]) \in 8..11

\* char::from_u32 of four hex digits is None exactly for a surrogate
IsSurrogate(ds) == UpperHex(ds[1]) = "D" /\ DigitVal(ds[2]) >= 8

UnicodeChar(ds) ==
    "u" \o UpperHex(ds[1]) \o UpperHex(ds[2]) \o UpperHex(ds[3]) \o UpperHex(ds[4])

\* (filter(c != '\\' && c != '"').or(escape)).repeated(): where it stops
RECURSIVE StrBody(_, _, _, _)
StrBody(s, p, text, errs) ==
    IF p >= Len(s) THEN [e |-> p, text |-> text, errs |-> errs]
    ELSE IF s[p + 1] \notin {"\\", "\""}
    THEN StrBody(s, p + 1, Append(text, s[p + 1]), errs)
    ELSE IF s[p + 1] = "\\" /\ p + 1 < Len(s)
    THEN LET c == s[p + 2]
         IN IF c \in {"\\", "/", "\""} THEN StrBody(s, p + 2, Append(text, c), errs)
            ELSE IF c = "b" THEN StrBody(s, p + 2, Append(text, "x08"), errs)
            ELSE IF c = "f" THEN StrBody(s, p + 2, Append(text, "\f"), errs)
            ELSE IF c = "n" THEN StrBody(s, p + 2, Append(text, "\n"), errs)
            ELSE IF c = "r" THEN StrBody(s, p + 2, Append(text, "\r"), errs)
            ELSE IF c = "t" THEN StrBody(s, p + 2, Append(text, "\t"), errs)
            ELSE IF c = "u" /\ p + 6 <= Len(s)
                    /\ \A i \in 3..6 : s[p + i] \in Hex
            THEN LET ds == SubSeq(s, p + 3, p + 6)
                 IN IF IsSurrogate(ds)
                    THEN StrBody(s, p + 6, Append(text, "uFFFD"), errs + 1)
                    ELSE StrBody(s, p + 6, Append(text, UnicodeChar(ds)), errs)
            ELSE [e |-> p, text |-> text, errs |-> errs]
    ELSE [e |-> p, text |-> text, errs |-> errs]

lex_string(s, p) ==
    IF p < Len(s) /\ s[p + 1] = "\""
    THEN Bind(StrBody(s, p + 1, <<>>, 0),
              LAMBDA body :
                 IF body.e < Len(s) /\ s[body.e + 1] = "\""
                 THEN [LOk(body.e + 1, TokS("Str", body.text)) EXCEPT !.errs = body.errs]
                 ELSE LFail)
    ELSE LFail

Keywords == <<
    <<<<"m","a","c","r","o">>, "Macro">>, <<<<"c","a","l","l","d","a","t","a">>, "Calldata">>, <<<<"m","e","m","o","r","y">>, "Memory">>,
    <<<<"s","t","o","r","a","g","e">>, "Storage">>, <<<<"c","o","n","s","t","a","n","t">>, "Constant">>, <<<<"f","n">>, "Fn">>,
    <<<<"f","u","n","c","t","i","o","n">>, "Function">>, <<<<"e","v","e","n","t">>, "Event">>, <<<<"e","r","r","o","r">>, "Error">>,
    <<<<"t","a","k","e","s">>, "Takes">>, <<<<"r","e","t","u","r","n","s">>, "Returns">>, <<<<"c","o","d","e","t","a","b","l","e">>, "CodeTable">>,
    <<<<"j","u","m","p","t","a","b","l","e">>, "JumpTable">>, <<<<"j","u","m","p","t","a","b","l","e","p","a","c","k","e","d">>, "JumpTablePacked">>,
    <<<<"p","u","r","e">>, "Pure">>, <<<<"p","a","y","a","b","l","e">>, "Payable">>, <<<<"n","o","n","p","a","y","a","b","l","e">>, "NonPayable">>,
    <<<<"v","i","e","w">>, "View">>, <<<<"i","n","d","e","x","e","d">>, "Indexed">> >>

\* the map of lex_opcode_or_ident: opcode, else keyword, else identifier
IdentToken(ident) ==
    IF ident \in OpcodeKeys
    THEN [Tok("Opcode") EXCEPT !.k = OpcodeOf(ident)]
    ELSE IF \E i \in DOMAIN Keywords : Keywords[i][1] = ident
    THEN Tok(Keywords[CHOOSE i \in DOMAIN Keywords : Keywords[i][1] = ident][2])
    ELSE TokS("Ident", ident)

lex_opcode_or_ident(s, p) ==
    LET q == SkipWhile(s, p, Whitespace)
        e == IdentEnd(s, q)
    IN IF e = -1 THEN LFail
       ELSE LOk(SkipWhile(s, e, Whitespace), IdentToken(SubSeq(s, q + 1, e)))

\* a run of digits that may be empty, read as a number
lex_number_empty(s, p) ==
    IF DigitsEnd(s, p, Hex) # -1
    THEN LOk(DigitsEnd(s, p, Hex),
             [Tok("Num") EXCEPT !.n = ParseUsize(SubSeq(s, p + 1, DigitsEnd(s, p, Hex))).v])
    ELSE LOk(p, [Tok("Num") EXCEPT !.n = <<"0">>])

\* text::digits(16).map(|n| Token::Num(n.parse().unwrap_or(0)))
lex_number(s, p) ==
    IF DigitsEnd(s, p, Hex) # -1
    THEN LOk(DigitsEnd(s, p, Hex),
             [Tok("Num") EXCEPT !.n = ParseUsize(SubSeq(s, p + 1, DigitsEnd(s, p, Hex))).v])
    ELSE LFail

\* text::newline
NewlineEnd(s, p) ==
    IF StartsWith(s, p, <<"\r","\n">>) THEN p + 2
    ELSE IF p < Len(s) /\ s[p + 1] \in {"\n", "\r", "\f"} THEN p + 1
    ELSE -1

\* the first q >= p at which w starts, or -1
RECURSIVE Find(_, _, _)
Find(s, p, w) ==
    IF p + Len(w) > Len(s) THEN -1
    ELSE IF StartsWith(s, p, w) THEN p
    ELSE Find(s, p + 1, w)

\* just(open).then(take_until(just(close))).padded_by(other_whitespace.repeated())
CommentEnd(s, p, open, close) ==
    LET q == SkipWhile(s, p, OtherWhitespace)
    IN IF StartsWith(s, q, open) /\ Find(s, q + Len(open), close) # -1
       THEN SkipWhile(s, Find(s, q + Len(open), close) + Len(close), OtherWhitespace)
       ELSE -1

\* a.or(b) on end positions
OrEnd(a, b) == IF a # -1 THEN a ELSE b

\* one of text::newline, comment, multiline_comment, in that order
NewlineUnit(s, p) ==
    OrEnd(NewlineEnd(s, p),
          OrEnd(CommentEnd(s, p, <<"/","/">>, <<"\n">>), CommentEnd(s, p, <<"/","*">>, <<"*","/">>)))

\* the repetition of lex_newline_and_comments stopped after one item
NewlineRun_single(s, p) == NewlineUnit(s, p)

RECURSIVE NewlineRun(_, _)
NewlineRun(s, p) ==
    IF NewlineUnit(s, p) # -1 THEN NewlineRun(s, NewlineUnit(s, p)) ELSE p

\* (newline | comment | multiline_comment).repeated().at_least(1).to(Newline)
lex_newline_and_comments(s, p) ==
    IF NewlineUnit(s, p) # -1 THEN LOk(NewlineRun(s, p), Tok("Newline")) ELSE LFail

\* `token` of lexer(), before its recovery
lex_token(s, p) ==
    LOr(LOr(LOr(LOr(LOr(LOr(LOr(LOr(LOr(LOr(
        lex_define(s, p),
        lex_evm_type(s, p)),
        lex_free_storage_pointer(s, p)),
        lex_include(s, p)),
        lex_string(s, p)),
        lex_literals(s, p)),
        lex_builtin_function(s, p)),
        lex_operators(s, p)),
        lex_opcode_or_ident(s, p)),
        lex_number(s, p)),
        lex_newline_and_comments(s, p))

\* skip_then_retry_until([]): skip one character and retry, until the end
RECURSIVE SkipThenRetry(_, _)
SkipThenRetry(s, p) ==
    IF p >= Len(s) THEN LFail
    ELSE Bind(lex_token(s, p + 1),
              LAMBDA r :
                 IF r.panic THEN r
                 ELSE IF r.ok THEN [r EXCEPT !.errs = r.errs + 1]
                 ELSE SkipThenRetry(s, p + 1))

\* token.recover_with(..).map_with_span(..).padded_by(other_whitespace.repeated())
SpannedToken(s, p) ==
    Bind(SkipWhile(s, p, OtherWhitespace),
         LAMBDA p0 :
            Bind(lex_token(s, p0),
                 LAMBDA first :
                    Bind(IF first.panic \/ first.ok THEN first ELSE SkipThenRetry(s, p0),
                         LAMBDA r :
                            [ok |-> r.ok, panic |-> r.panic, errs |-> r.errs,
                             recovered |-> ~first.ok /\ r.ok,
                             e |-> SkipWhile(s, r.e, OtherWhitespace),
                             tok |-> [tok |-> r.tok, start |-> p0, end |-> r.e]])))

\* the chained part without the token of end().rewind()
FinalNewline_unchained(s, p) ==
    Bind(lex_newline_and_comments(s, p),
         LAMBDA nl :
            IF nl.ok
            THEN [ok |-> nl.e = Len(s),
                  toks |-> <<[tok |-> nl.tok, start |-> p, end |-> nl.e]>>]
            ELSE [ok |-> p = Len(s), toks |-> <<>>])

\* .chain(newline.or(end().rewind().to(Newline)).map_with_span(..)).then_ignore(end()):
\* the tokens chained to the repetition, and whether the input ends there.
\* end().rewind() consumes nothing; map_with_span gives a parser that
\* consumed nothing at the end of a str the span of the end of input, which
\* is one position wide: Len(s) .. Len(s) + 1
FinalNewline(s, p) ==
    Bind(lex_newline_and_comments(s, p),
         LAMBDA nl :
            IF nl.ok
            THEN [ok |-> nl.e = Len(s),
                  toks |-> <<[tok |-> nl.tok, start |-> p, end |-> nl.e]>>]
            ELSE [ok |-> p = Len(s),
                  toks |-> <<[tok |-> Tok("Newline"), start |-> p, end |-> p + 1]>>])

(***************************************************************************)
(* Lexer inputs                                                            *)
(***************************************************************************)
MaxSrcLen == 4
MaxHexDigits == 66

RECURSIVE SeqsUpTo(_, _)
SeqsUpTo(A, n) ==
    IF n = 0 THEN {<<>>}
    ELSE LET shorter == SeqsUpTo(A, n - 1)
         IN shorter \cup {Append(q, x) : q \in {r \in shorter : Len(r) = n - 1}, x \in A}

\* every text over these characters, up to MaxSrcLen characters
TextAlphabet == {"(", "a", "@", " ", "\n", "/", "*"}
TextSources == SeqsUpTo(TextAlphabet, MaxSrcLen)

\* hex digit runs of every length up to MaxHexDigits
HexPatterns == {<<"1","2","3","4","5","6","7","8","9","0","a","b","c","d","e","f","A","B","C","D","E","F">>, <<"f">>, <<"0">>, <<"0","a">>}
HexRun(n, pat) == [i \in 1..n |-> pat[((i - 1) % Len(pat)) + 1]]
HexRuns == {HexRun(n, pat) : n \in 1..MaxHexDigits, pat \in HexPatterns}
HexSources == {<<"0","x">> \o d : d \in HexRuns}

\* each key of the opcode table alone
OpcodeSources == OpcodeKeys

SampleSources == {
    <<"#","d","e","f","i","n","e"," ","m","a","c","r","o"," ","M","A","I","N","(",")"," ","="," ","t","a","k","e","s","(","0",")"," ","r","e","t","u","r","n","s","(","0",")"," ","{"," ","s","t","o","p"," ","}">>,
    <<"#","i","n","c","l","u","d","e"," ","\"","a",".","h","u","f","f","\"","\n","#","d","e","f","i","n","e"," ","c","o","n","s","t","a","n","t"," ","X"," ","="," ","F","R","E","E","_","S","T","O","R","A","G","E","_","P","O","I","N","T","E","R","(",")">>,
    <<"#","d","e","f","i","n","e"," ","f","u","n","c","t","i","o","n"," ","f","(","u","i","n","t","2","5","6","[","2","]","[","]",",","b","y","t","e","s","3","2"," ","m","e","m","o","r","y"," ","x",")"," ","v","i","e","w"," ","r","e","t","u","r","n","s"," ","(","b","o","o","l",")">>,
    <<"b","y","t","e","s"," ","b","y","t","e","s","4"," ","i","n","t","8"," ","u","i","n","t"," ","s","t","r","i","n","g"," ","a","d","d","r","e","s","s","[","3","]">>,
    <<"u","i","n","t","1","8","4","4","6","7","4","4","0","7","3","7","0","9","5","5","1","6","1","5">>,
    <<"u","i","n","t","1","8","4","4","6","7","4","4","0","7","3","7","0","9","5","5","1","6","1","6">>,
    <<"i","n","t","9","9","9","9","9","9","9","9","9","9","9","9","9","9","9","9","9","9","9","9">>,
    <<"b","y","t","e","s","3","4","0","2","8","2","3","6","6","9","2","0","9","3","8","4","6","3","4","6","3","3","7","4","6","0","7","4","3","1","7","6","8","2","1","1","4","5","6">>,
    <<"b","o","o","l","[","1","8","4","4","6","7","4","4","0","7","3","7","0","9","5","5","1","6","1","6","]">>,
    <<"u","i","n","t","0","0","0","0","0","0","0","0","0","0","0","0","0","0","0","0","0","0","0","0","0","2","5","6">>,
    <<"_","_","F","U","N","C","_","S","I","G","(","t","r","a","n","s","f","e","r",")"," ","<","x",">"," ","l","b","l",":"," ","1","2"," ","1","f">>,
    <<"\"","a","\\","t","b","\\","u","0","0","4","1","\\","u","D","8","0","0","\""," ","\"","o","p","e","n">>,
    <<"s","t","o","p"," ","/","/"," ","c","\n","/","*"," ","d"," ","*","/"," ","a","d","d">>,
    <<"(","\r","\n","\f",")">> }

\* the pieces of a string literal: the characters written, the characters
\* they stand for and the escapes among them that name no scalar value
MaxEscapes == 2

StringPieces == {
    [raw |-> <<"a">>,        text |-> <<"a">>,     bad |-> 0],
    [raw |-> <<"\\","n">>,      text |-> <<"\n">>,    bad |-> 0],
    [raw |-> <<"\\","u","0","0","4","1">>,  text |-> <<"u0041">>, bad |-> 0],
    [raw |-> <<"\\","u","d","7","f","f">>,  text |-> <<"uD7FF">>, bad |-> 0],
    [raw |-> <<"\\","u","E","0","0","0">>,  text |-> <<"uE000">>, bad |-> 0],
    [raw |-> <<"\\","u","D","8","0","0">>,  text |-> <<"uFFFD">>, bad |-> 1],
    [raw |-> <<"\\","u","d","b","f","f">>,  text |-> <<"uFFFD">>, bad |-> 1],
    [raw |-> <<"\\","u","D","F","F","F">>,  text |-> <<"uFFFD">>, bad |-> 1] }

RECURSIVE StringBodies(_)
StringBodies(n) ==
    IF n = 0 THEN {[raw |-> <<>>, text |-> <<>>, bad |-> 0]}
    ELSE StringBodies(n - 1) \cup
         {[raw |-> b.raw \o c.raw, text |-> b.text \o c.text, bad |-> b.bad + c.bad] :
              b \in StringBodies(n - 1), c \in StringPieces}

\* a string literal followed by an opcode
StringForms ==
    {[b EXCEPT !.raw = <<"\"">> \o b.raw \o <<"\""," ","s","t","o","p">>] : b \in StringBodies(MaxEscapes)}

StringSources == {f.raw : f \in StringForms}

\* `#`, a gap of spaces, tabs or line breaks, a directive keyword, a name
DirectiveGaps == {<<>>, <<" ">>, <<"\t">>, <<"\n">>, <<"\r","\n">>, <<" ","\n","\t">>}

DirectiveForms ==
    {[gap |-> g, kw |-> k[2], raw |-> <<"#">> \o g \o k[1] \o <<" ","x">>] :
         g \in DirectiveGaps, k \in {<<<<"d","e","f","i","n","e">>, "Define">>, <<<<"i","n","c","l","u","d","e">>, "Include">>}}

DirectiveSources == {f.raw : f \in DirectiveForms}

\* BUILTINS of src/src/builtins.rs
BUILTINS == <<
    <<"_","_","t","a","b","l","e","s","t","a","r","t">>, <<"_","_","t","a","b","l","e","s","i","z","e">>, <<"_","_","c","o","d","e","s","i","z","e">>, <<"_","_","F","U","N","C","_","S","I","G">>,
    <<"_","_","E","V","E","N","T","_","H","A","S","H">>, <<"_","_","E","R","R","O","R">>, <<"_","_","R","I","G","H","T","P","A","D">>, <<"_","_","D","Y","N","_","C","O","N","S","T","R","U","C","T","O","R","_","A","R","G">> >>

\* each builtin name called with one argument
BuiltinCallSources == {BUILTINS[i] \o <<"(","a",")">> : i \in DOMAIN BUILTINS}

\* words that start with the text of a primitive type and go on
WordSources == {
    <<"b","y","t","e","s","F","o","o">>, <<"b","y","t","e","s","3","2","x">>, <<"u","i","n","t","2","5","6","x">>, <<"i","n","t","8","_","t">>, <<"a","d","d","r","e","s","s","O","f">>, <<"b","o","o","l","e","a","n">>,
    <<"s","t","r","i","n","g","i","f","y">> }

Sources ==
    TextSources \cup HexSources \cup OpcodeSources \cup SampleSources \cup StringSources
    \cup DirectiveSources \cup BuiltinCallSources \cup WordSources

(***************************************************************************)
(* The lexer: lexer() of src/src/lexer/mod.rs                              *)
(***************************************************************************)
LexInit ==
    /\ src \in Sources
    /\ lpos = 0 /\ ltoks = <<>> /\ ldiags = 0 /\ lstatus = "start"
    /\ ptoks = <<>> /\ ppos = 0 /\ stmts = <<>> /\ perrs = 0 /\ pstatus = "idle"

\* newline.clone().or_not(): a leading separator is dropped
LexLeadingNewline ==
    /\ lstatus = "start"
    /\ \E nl \in {lex_newline_and_comments(src, 0)} :
          lpos' = IF nl.ok THEN nl.e ELSE 0
    /\ lstatus' = "tokens"
    /\ UNCHANGED <<src, ltoks, ldiags, pvars>>

\* one iteration of the repetition: a token parsed where the lexer stands
LexToken ==
    /\ lstatus = "tokens"
    /\ \E r \in {SpannedToken(src, lpos)} :
          /\ r.ok /\ ~r.recovered
          /\ ltoks' = Append(ltoks, r.tok)
          /\ lpos' = r.e
          /\ ldiags' = ldiags + r.errs
    /\ UNCHANGED <<src, lstatus, pvars>>

\* one iteration of the repetition: characters skipped, then a token
LexSkipInvalid ==
    /\ lstatus = "tokens"
    /\ \E r \in {SpannedToken(src, lpos)} :
          /\ r.ok /\ r.recovered
          /\ ltoks' = Append(ltoks, r.tok)
          /\ lpos' = r.e
          /\ ldiags' = ldiags + r.errs
    /\ UNCHANGED <<src, lstatus, pvars>>

\* an unwrap() of a failed parse::<usize>() ends the program
LexPanic ==
    /\ lstatus = "tokens"
    /\ SpannedToken(src, lpos).panic
    /\ lstatus' = "panicked"
    /\ UNCHANGED <<src, lpos, ltoks, ldiags, pvars>>

\* the repetition ends; the closing Newline and end() decide the result
LexFinish ==
    /\ lstatus = "tokens"
    /\ \E r \in {SpannedToken(src, lpos)}, f \in {FinalNewline(src, lpos)} :
          /\ ~r.ok /\ ~r.panic
          /\ IF f.ok
             THEN /\ ltoks' = ltoks \o f.toks
                  /\ lpos' = Len(src)
                  /\ lstatus' = "ok"
                  /\ ldiags' = ldiags
             ELSE /\ lstatus' = "failed"
                  /\ ldiags' = ldiags + 1
                  /\ UNCHANGED <<ltoks, lpos>>
    /\ UNCHANGED <<src, pvars>>

LexNext == LexLeadingNewline \/ LexToken \/ LexSkipInvalid \/ LexPanic \/ LexFinish

SpecLexer == LexInit /\ [][LexNext]_vars

Kinds(toks) == [i \in DOMAIN toks |-> toks[i].tok.t]

(***************************************************************************)
(* Properties of the lexer                                                 *)
(***************************************************************************)
IsNewline(i) == ltoks[i].tok.t = "Newline"

\* the source is `0x` followed by hex digits only
IsHexSource == Len(src) >= 3 /\ SubSeq(src, 1, 2) = <<"0","x">>
               /\ \A i \in 3..Len(src) : src[i] \in Hex
HexDigitsOf == SubSeq(src, 3, Len(src))

\* the j-th of the 64 hex digits of d read as a 256-bit big-endian integer
Nibble(d, j) == IF j > 64 - Len(d) THEN DigitVal(d[j - (64 - Len(d))]) ELSE 0
BigEndian32(d) == [i \in 1..32 |-> 16 * Nibble(d, 2 * i - 1) + Nibble(d, 2 * i)]

\* C3: the lexer never panics and never ends without a token list, whatever
\* the input is.
C3_LexerTotal == lstatus \notin {"panicked", "failed"}

\* C4: the source text of an opcode table key, alone, lexes as the Opcode
\* token of that key's opcode.
C4_OpcodeKeysLexAsOpcodes ==
    (lstatus = "ok" /\ src \in OpcodeKeys) =>
        /\ Kinds(ltoks) = <<"Opcode", "Newline">>
        /\ ltoks[1].tok.k = OpcodeOf(src)

\* C5: `0x` followed by 1 to 63 hex digits lexes as exactly one Literal whose
\* 32 bytes are the digits as a big-endian integer, right-aligned and
\* zero-extended on the left.
C5_ShortHexIsRightAlignedLiteral ==
    (lstatus = "ok" /\ IsHexSource /\ Len(HexDigitsOf) <= 63) =>
        /\ Kinds(ltoks) = <<"Literal", "Newline">>
        /\ ltoks[1].tok.b = BigEndian32(HexDigitsOf)

C5_Witness ==
    /\ lstatus = "ok" /\ src = <<"0","x","1","2","3","4">>
    /\ ltoks[1].tok.b = [i \in 1..32 |-> IF i <= 30 THEN 0 ELSE IF i = 31 THEN 18 ELSE 52]

C7_EndsWithNewline ==
    lstatus = "ok" => (ltoks # <<>> /\ IsNewline(Len(ltoks)))

\* the source ends with a token that is no separator, and the list ends with
\* an empty Newline at the end of input
C7_Witness ==
    /\ lstatus = "ok" /\ Len(ltoks) >= 2 /\ ~IsNewline(Len(ltoks) - 1)
    /\ ltoks[Len(ltoks) - 1].end = Len(src)
    /\ IsNewline(Len(ltoks)) /\ ltoks[Len(ltoks)].start = Len(src)

Ok(p, out) == [ok |-> TRUE, p |-> p, out |-> out, errs |-> 0]
Err == [ok |-> FALSE, p |-> 0, out |-> <<>>, errs |-> 0]

\* map_with_span(|v, span| (v, span))
Spanned(v, start, end) == [v |-> v, start |-> start, end |-> end]

\* just(Token::k), and the select! extractors: the token at p is a k
just(t, p, k) == p < Len(t) /\ t[p + 1].t = k

\* a.or(b).  chumsky returns a at once only when a succeeded and emitted no
\* error; otherwise it runs b and returns b if b succeeded and emitted no
\* error; otherwise it keeps the one that succeeded, and of two successes
\* the one with fewer errors.
Or(a, b) ==
    IF a.ok /\ a.errs = 0 THEN a
    ELSE IF b.ok /\ b.errs = 0 THEN b
    ELSE IF a.ok /\ b.ok THEN (IF b.errs < a.errs THEN b ELSE a)
    ELSE IF a.ok THEN a
    ELSE b

\* a.or_not(), with r the result of a at p
or_not(r, p, none) == IF r.ok THEN r ELSE Ok(p, none)

\* a.then_ignore(just(Token::Comma).or_not()): the position after r
SkipComma(t, p) == IF just(t, p, "Comma") THEN p + 1 ELSE p

Valid(name) == [arg |-> "Valid", name |-> name]
Invalid == [arg |-> "Invalid", name |-> <<>>]

\* parse_args: (ident | num | literal) then an optional comma, repeated
RECURSIVE parse_args(_, _, _)
parse_args(t, p, acc) ==
    IF just(t, p, "Ident")
    THEN parse_args(t, SkipComma(t, p + 1), Append(acc, Spanned(Valid(t[p + 1].s), p, p + 1)))
    ELSE IF just(t, p, "Num") \/ just(t, p, "Literal")
    THEN parse_args(t, SkipComma(t, p + 1), Append(acc, Spanned(Invalid, p, p + 1)))
    ELSE Ok(p, acc)

\* the value the closure `f` of a nested_parser builds from the span
Placeholder(which, start, end) ==
    CASE which = "args" -> <<Spanned(Invalid, start, end)>>
      [] which = "jumptable" ->
            <<Spanned([kind |-> "Error", text |-> <<"U","n","e","x","p","e","c","t","e","d"," ","t","o","k","e","n">>], start, end)>>
      [] which = "codetable" ->
            Spanned([kind |-> "Error", text |-> <<"U","n","e","x","p","e","c","t","e","d">>], start, end)
      [] which = "event" ->
            <<Spanned([name |-> <<"e","r","r","o","r">>, indexed |-> FALSE,
                       kind |-> [k |-> "Address", n |-> <<>>, a |-> <<>>]], start, end)>>
      [] OTHER -> <<>>

\* the scan of nested_delimiters from q with `balance` delimiters open: the
\* position after the close delimiter that brings the balance back to 0,
\* or -1.  Only the two delimiters of the pair count; the scan gives up at
\* the end of input, at a close delimiter with nothing open, and at any
\* other token with nothing open.
RECURSIVE NestedScan(_, _, _, _, _)
NestedScan(t, q, open, close, balance) ==
    IF q >= Len(t) THEN -1
    ELSE IF t[q + 1].t = open THEN NestedScan(t, q + 1, open, close, balance + 1)
    ELSE IF t[q + 1].t = close
    THEN (IF balance = 1 THEN q + 1
          ELSE IF balance < 1 THEN -1
          ELSE NestedScan(t, q + 1, open, close, balance - 1))
    ELSE IF balance = 0 THEN -1
    ELSE NestedScan(t, q + 1, open, close, balance)

\* recover_with(nested_delimiters(open, close, .., f)) run at p
nested_delimiters(t, p, open, close, which) ==
    Bind(NestedScan(t, p, open, close, 0),
         LAMBDA e :
            IF e = -1 THEN Err
            ELSE [ok |-> TRUE, p |-> e, out |-> Placeholder(which, p, e), errs |-> 1])

\* nested_parser: parser.delimited_by(just(open), just(close)), with
\* `inner` the result of `parser` at p + 1, and the recovery if it fails
nested_parser(t, p, inner, open, close, which) ==
    IF just(t, p, open) /\ inner.ok /\ just(t, inner.p, close)
    THEN [inner EXCEPT !.p = inner.p + 1]
    ELSE nested_delimiters(t, p, open, close, which)

\* kw ( number? ) with the number left out of the result
StackClause_zero(t, p, kw) ==
    IF just(t, p, kw) /\ just(t, p + 1, "OpenParen")
    THEN IF just(t, p + 2, "Num") /\ just(t, p + 3, "CloseParen")
         THEN Ok(p + 4, Spanned(<<"0">>, p, p + 4))
         ELSE IF just(t, p + 2, "CloseParen")
         THEN Ok(p + 3, Spanned(<<"0">>, p, p + 3))
         ELSE Err
    ELSE Err

\* parse_takes and parse_returns: kw ( number? ), a missing number is 0
StackClause(t, p, kw) ==
    IF just(t, p, kw) /\ just(t, p + 1, "OpenParen")
    THEN IF just(t, p + 2, "Num") /\ just(t, p + 3, "CloseParen")
         THEN Ok(p + 4, Spanned(t[p + 3].n, p, p + 4))
         ELSE IF just(t, p + 2, "CloseParen")
         THEN Ok(p + 3, Spanned(<<"0">>, p, p + 3))
         ELSE Err
    ELSE Err

parse_takes(t, p) == StackClause(t, p, "Takes")

parse_returns(t, p) == StackClause(t, p, "Returns")

\* the entries of a macro body
parse_macro_invocation(t, p) ==
    IF just(t, p, "Ident") /\ just(t, p + 1, "OpenParen")
    THEN Bind(parse_args(t, p + 2, <<>>),
              LAMBDA args :
                 IF just(t, args.p, "CloseParen")
                 THEN Ok(args.p + 1,
                         Spanned([kind |-> "MacroInvocation", name |-> t[p + 1].s,
                                  args |-> args.out], p, args.p + 1))
                 ELSE Err)
    ELSE Err

parse_builtin_invocation(t, p) ==
    IF just(t, p, "BuiltinFunction") /\ just(t, p + 1, "OpenParen")
    THEN Bind(parse_args(t, p + 2, <<>>),
              LAMBDA args :
                 IF just(t, args.p, "CloseParen")
                 THEN Ok(args.p + 1,
                         Spanned([kind |-> "BuiltinInvocation", name |-> t[p + 1].s,
                                  args |-> args.out], p, args.p + 1))
                 ELSE Err)
    ELSE Err

parse_hex_literal(t, p) ==
    IF just(t, p, "Literal")
    THEN Ok(p + 1, Spanned([kind |-> "HexLiteral", b |-> t[p + 1].b], p, p + 1))
    ELSE Err

parse_arg_invocation(t, p) ==
    IF just(t, p, "LeftAngle") /\ just(t, p + 1, "Ident") /\ just(t, p + 2, "RightAngle")
    THEN Ok(p + 3, Spanned([kind |-> "ArgsInvocation", name |-> t[p + 2].s], p, p + 3))
    ELSE Err

\* extract_ident alone: every label is a JumpLabel
parse_jump_label_plain(t, p) ==
    IF just(t, p, "Ident")
    THEN Ok(p + 1, Spanned([kind |-> "JumpLabel", name |-> t[p + 1].s], p, p + 1))
    ELSE Err

parse_jump_label(t, p) ==
    IF just(t, p, "Ident")
    THEN IF just(t, p + 1, "Colon")
         THEN Ok(p + 2, Spanned([kind |-> "JumpLabelDest", name |-> t[p + 1].s], p, p + 2))
         ELSE Ok(p + 1, Spanned([kind |-> "JumpLabel", name |-> t[p + 1].s], p, p + 1))
    ELSE Err

HexDigitChars == <<"0","1","2","3","4","5","6","7","8","9","a","b","c","d","e","f">>

\* the two lower-case hexadecimal digits of a byte
HexByte(b) == <<HexDigitChars[(b \div 16) + 1], HexDigitChars[(b % 16) + 1]>>

RECURSIVE HexOf(_)
HexOf(bytes) == IF bytes = <<>> THEN <<>> ELSE HexByte(bytes[1]) \o HexOf(Tail(bytes))

\* the tokens without a payload that Display prints by their variant name
NamedTokens == {
    "Newline", "Define", "Include", "Macro", "Fn", "Function", "Event", "Constant",
    "Error", "Takes", "Returns", "View", "Pure", "Payable", "NonPayable", "Indexed",
    "FreeStoragePointer", "JumpTable", "JumpTablePacked", "CodeTable", "Calldata",
    "Memory", "Storage" }

\* a TLA+ string as the sequence of its characters, for the variant names
NameChars == [
    Newline |-> <<"N","e","w","l","i","n","e">>, Define |-> <<"D","e","f","i","n","e">>, Include |-> <<"I","n","c","l","u","d","e">>,
    Macro |-> <<"M","a","c","r","o">>, Fn |-> <<"F","n">>, Function |-> <<"F","u","n","c","t","i","o","n">>, Event |-> <<"E","v","e","n","t">>,
    Constant |-> <<"C","o","n","s","t","a","n","t">>, Error |-> <<"E","r","r","o","r">>, Takes |-> <<"T","a","k","e","s">>,
    Returns |-> <<"R","e","t","u","r","n","s">>, View |-> <<"V","i","e","w">>, Pure |-> <<"P","u","r","e">>, Payable |-> <<"P","a","y","a","b","l","e">>,
    NonPayable |-> <<"N","o","n","P","a","y","a","b","l","e">>, Indexed |-> <<"I","n","d","e","x","e","d">>,
    FreeStoragePointer |-> <<"F","r","e","e","S","t","o","r","a","g","e","P","o","i","n","t","e","r">>, JumpTable |-> <<"J","u","m","p","T","a","b","l","e">>,
    JumpTablePacked |-> <<"J","u","m","p","T","a","b","l","e","P","a","c","k","e","d">>, CodeTable |-> <<"C","o","d","e","T","a","b","l","e">>,
    Calldata |-> <<"C","a","l","l","d","a","t","a">>, Memory |-> <<"M","e","m","o","r","y">>, Storage |-> <<"S","t","o","r","a","g","e">> ]

\* impl Display for Token.  The tokens whose payload has a Display of its
\* own (Opcode, PrimitiveType, ArrayType) are not rendered here.
to_string(tok) ==
    CASE tok.t \in NamedTokens -> NameChars[tok.t]
      [] tok.t = "Assign" -> <<"=">>
      [] tok.t = "OpenParen" -> <<"(">>
      [] tok.t = "CloseParen" -> <<")">>
      [] tok.t = "OpenBracket" -> <<"[">>
      [] tok.t = "CloseBracket" -> <<"]">>
      [] tok.t = "OpenBrace" -> <<"{">>
      [] tok.t = "CloseBrace" -> <<"}">>
      [] tok.t = "LeftAngle" -> <<"<">>
      [] tok.t = "RightAngle" -> <<">">>
      [] tok.t = "Comma" -> <<",">>
      [] tok.t = "Colon" -> <<";">>
      [] tok.t = "Ident" -> <<"I","d","e","n","t","(">> \o tok.s \o <<")">>
      [] tok.t = "Num" -> <<"N","u","m","(">> \o tok.n \o <<")">>
      [] tok.t = "Str" -> <<"S","t","r","(">> \o tok.s \o <<")">>
      [] tok.t = "Code" -> <<"C","o","d","e","(">> \o tok.s \o <<")">>
      [] tok.t = "BuiltinFunction" -> <<"B","u","i","l","t","i","n","F","u","n","c","t","i","o","n","(">> \o tok.s \o <<")">>
      [] tok.t = "Literal" -> <<"L","i","t","e","r","a","l","(">> \o HexOf(tok.b) \o <<")">>

\* one entry of parse_macro_body: the alternatives in their order
MacroBodyEntry(t, p) ==
    Or(Or(Or(Or(Or(Or(Or(
        IF just(t, p, "Opcode")
        THEN Ok(p + 1, Spanned([kind |-> "Opcode", k |-> t[p + 1].k], p, p + 1))
        ELSE Err,
        parse_macro_invocation(t, p)),
        parse_hex_literal(t, p)),
        parse_arg_invocation(t, p)),
        parse_builtin_invocation(t, p)),
        parse_jump_label(t, p)),
        IF just(t, p, "Num")
        THEN Ok(p + 1, Spanned([kind |-> "UnexpectedToken", text |-> t[p + 1].n], p, p + 1))
        ELSE Err),
        IF just(t, p, "Macro") \/ just(t, p, "Function") \/ just(t, p, "Storage")
        THEN Ok(p + 1, Spanned([kind |-> "UnexpectedToken", text |-> to_string(t[p + 1])],
                               p, p + 1))
        ELSE Err)

RECURSIVE parse_macro_body(_, _, _)
parse_macro_body(t, p, acc) ==
    Bind(MacroBodyEntry(t, p),
         LAMBDA r :
            IF r.ok THEN parse_macro_body(t, r.p, Append(acc, r.out)) ELSE Ok(p, acc))

MacroType(t, p) == IF just(t, p, "Macro") THEN "Macro" ELSE "Fn"

parse_macro(t, p) ==
    IF (just(t, p, "Macro") \/ just(t, p, "Fn")) /\ just(t, p + 1, "Ident")
    THEN Bind(nested_parser(t, p + 2, parse_args(t, p + 3, <<>>),
                            "OpenParen", "CloseParen", "args"),
         LAMBDA args :
            IF ~(args.ok /\ just(t, args.p, "Assign")) THEN Err
            ELSE Bind(or_not(parse_takes(t, args.p + 1), args.p + 1, Spanned(<<"0">>, 0, 0)),
                 LAMBDA takes :
                    Bind(or_not(parse_returns(t, takes.p), takes.p, Spanned(<<"0">>, 0, 0)),
                    LAMBDA returns :
                       Bind(nested_parser(t, returns.p,
                                          parse_macro_body(t, returns.p + 1, <<>>),
                                          "OpenBrace", "CloseBrace", "body"),
                       LAMBDA body :
                          IF ~body.ok THEN Err
                          ELSE [ok |-> TRUE, p |-> body.p, errs |-> args.errs + body.errs,
                                out |-> Spanned(
                                    [kind |-> "MacroDefinition", name |-> t[p + 2].s,
                                     macro_type |-> Spanned(MacroType(t, p), p, p + 1),
                                     takes |-> takes.out, returns |-> returns.out,
                                     statements |-> body.out, args |-> args.out],
                                    p, body.p)]))))
    ELSE Err

\* a literal, or FREE_STORAGE_POINTER with or without its parentheses
parse_constant_value_bare(t, p) ==
    IF just(t, p, "Literal")
    THEN Ok(p + 1, [kind |-> "Literal", b |-> t[p + 1].b])
    ELSE IF just(t, p, "FreeStoragePointer")
    THEN Ok(IF just(t, p + 1, "OpenParen") /\ just(t, p + 2, "CloseParen")
            THEN p + 3 ELSE p + 1,
            [kind |-> "FreeStoragePointer", b |-> <<>>])
    ELSE Err

\* parse_constant_value: a literal, or FREE_STORAGE_POINTER ( )
parse_constant_value(t, p) ==
    IF just(t, p, "Literal")
    THEN Ok(p + 1, [kind |-> "Literal", b |-> t[p + 1].b])
    ELSE IF just(t, p, "FreeStoragePointer") /\ just(t, p + 1, "OpenParen")
            /\ just(t, p + 2, "CloseParen")
    THEN Ok(p + 3, [kind |-> "FreeStoragePointer", b |-> <<>>])
    ELSE Err

parse_constants(t, p) ==
    IF just(t, p, "Constant") /\ just(t, p + 1, "Ident") /\ just(t, p + 2, "Assign")
    THEN Bind(parse_constant_value(t, p + 3),
              LAMBDA value :
                 IF value.ok
                 THEN Ok(value.p, Spanned([kind |-> "ConstantDefinition", name |-> t[p + 2].s,
                                           value |-> value.out], p, value.p))
                 ELSE Err)
    ELSE Err

\* extract_string.or_else(..) and validate: a missing string is replaced by
\* the marker text, and the marker text emits "Expected string"
ParsingErrorMarker == <<"_","_","_","_","P","A","R","S","I","N","G","_","E","R","R","O","R">>

parse_include(t, p) ==
    IF just(t, p, "Include")
    THEN Bind(IF just(t, p + 1, "Str") THEN Ok(p + 2, t[p + 2].s)
              ELSE Ok(p + 1, ParsingErrorMarker),
              LAMBDA str :
                 [ok |-> TRUE, p |-> str.p,
                  out |-> Spanned([kind |-> "FileInclude", path |-> str.out], p, str.p),
                  errs |-> IF str.out = ParsingErrorMarker THEN 1 ELSE 0])
    ELSE Err

\* extract_primitive: the FunctionParamType of a PrimitiveType or ArrayType token
FunctionParamTypeOf(k) ==
    CASE k = "DynBytes" -> "Bytes" [] k = "Bytes" -> "FixedBytes" [] OTHER -> k

extract_primitive(t, p) ==
    IF just(t, p, "PrimitiveType")
    THEN Ok(p + 1, [k |-> FunctionParamTypeOf(t[p + 1].k), n |-> t[p + 1].n, a |-> <<>>])
    ELSE IF just(t, p, "ArrayType")
    THEN Ok(p + 1, [k |-> FunctionParamTypeOf(t[p + 1].k), n |-> t[p + 1].n, a |-> t[p + 1].a])
    ELSE Err

\* parse_parameter_kind().or_not(): the data location at p, if any
parse_parameter_kind(t, p) ==
    IF just(t, p, "Memory") THEN Ok(p + 1, <<<<"m","e","m","o","r","y">>>>)
    ELSE IF just(t, p, "Storage") THEN Ok(p + 1, <<<<"s","t","o","r","a","g","e">>>>)
    ELSE IF just(t, p, "Calldata") THEN Ok(p + 1, <<<<"c","a","l","l","d","a","t","a">>>>)
    ELSE Ok(p, <<>>)

\* ident.or_not(): the name at p, or the empty string
OptionalName(t, p) == IF just(t, p, "Ident") THEN Ok(p + 1, t[p + 1].s) ELSE Ok(p, <<>>)

\* parse_abi_inputs: (type location? name?) then an optional comma, repeated
RECURSIVE parse_abi_inputs(_, _, _)
parse_abi_inputs(t, p, acc) ==
    Bind(extract_primitive(t, p),
    LAMBDA prim :
       IF ~prim.ok THEN Ok(p, acc)
       ELSE Bind(parse_parameter_kind(t, prim.p),
            LAMBDA loc :
               Bind(OptionalName(t, loc.p),
               LAMBDA name :
                  parse_abi_inputs(t, SkipComma(t, name.p),
                      Append(acc, Spanned([name |-> name.out, kind |-> prim.out,
                                           internal_type |-> loc.out], p, name.p))))))

\* parse_event_inputs: (type indexed? name?) then an optional comma, repeated
RECURSIVE parse_event_inputs(_, _, _)
parse_event_inputs(t, p, acc) ==
    Bind(extract_primitive(t, p),
    LAMBDA prim :
       IF ~prim.ok THEN Ok(p, acc)
       ELSE Bind(OptionalName(t, IF just(t, prim.p, "Indexed") THEN prim.p + 1 ELSE prim.p),
            LAMBDA name :
               parse_event_inputs(t, SkipComma(t, name.p),
                   Append(acc, Spanned([name |-> name.out, kind |-> prim.out,
                                        indexed |-> just(t, prim.p, "Indexed")],
                                       p, name.p)))))

parse_errors(t, p) ==
    IF just(t, p, "Error") /\ just(t, p + 1, "Ident") /\ just(t, p + 2, "OpenParen")
    THEN Bind(parse_abi_inputs(t, p + 3, <<>>),
              LAMBDA inputs :
                 IF just(t, inputs.p, "CloseParen")
                 THEN Ok(inputs.p + 1,
                         Spanned([kind |-> "AbiError", name |-> t[p + 2].s,
                                  inputs |-> inputs.out], p, inputs.p + 1))
                 ELSE Err)
    ELSE Err

parse_abi_event_definition(t, p) ==
    IF just(t, p, "Event") /\ just(t, p + 1, "Ident")
    THEN Bind(nested_parser(t, p + 2, parse_event_inputs(t, p + 3, <<>>),
                            "OpenParen", "CloseParen", "event"),
              LAMBDA inputs :
                 IF inputs.ok
                 THEN [inputs EXCEPT
                          !.out = Spanned([kind |-> "AbiEvent", name |-> t[p + 2].s,
                                           inputs |-> inputs.out, anonymous |-> FALSE],
                                          p, inputs.p)]
                 ELSE Err)
    ELSE Err

\* a mutability keyword, read as view whichever it is
parse_abi_visibility_view(t, p) ==
    IF just(t, p, "View") \/ just(t, p, "Payable") \/ just(t, p, "NonPayable")
       \/ just(t, p, "Pure")
    THEN Ok(p + 1, Spanned("View", p, p + 1))
    ELSE Err

\* parse_abi_visibility
parse_abi_visibility(t, p) ==
    IF just(t, p, "View") \/ just(t, p, "Payable") \/ just(t, p, "NonPayable")
       \/ just(t, p, "Pure")
    THEN Ok(p + 1, Spanned(t[p + 1].t, p, p + 1))
    ELSE Err

parse_return_type(t, p) ==
    IF just(t, p, "Returns")
    THEN nested_parser(t, p + 1, parse_abi_inputs(t, p + 2, <<>>),
                       "OpenParen", "CloseParen", "returns")
    ELSE Err

parse_abi_definition(t, p) ==
    IF just(t, p, "Function") /\ just(t, p + 1, "Ident")
    THEN Bind(nested_parser(t, p + 2, parse_abi_inputs(t, p + 3, <<>>),
                            "OpenParen", "CloseParen", "abi"),
         LAMBDA inputs :
            IF ~inputs.ok THEN Err
            ELSE Bind(parse_abi_visibility(t, inputs.p),
                 LAMBDA vis :
                    IF ~vis.ok THEN Err
                    ELSE Bind(or_not(parse_return_type(t, vis.p), vis.p, <<>>),
                         LAMBDA outputs :
                            [ok |-> TRUE, p |-> outputs.p,
                             errs |-> inputs.errs + outputs.errs,
                             out |-> Spanned([kind |-> "AbiFunction", name |-> t[p + 2].s,
                                              inputs |-> inputs.out, outputs |-> outputs.out,
                                              constant |-> FALSE,
                                              state_mutability |-> vis.out],
                                             p, outputs.p)])))
    ELSE Err

\* parse_optional_paren().or_not(): the position after "( ) =", if it is there
parse_optional_paren(t, p) ==
    IF just(t, p, "OpenParen") /\ just(t, p + 1, "CloseParen") /\ just(t, p + 2, "Assign")
    THEN p + 3 ELSE p

RECURSIVE parse_jump_table_contents(_, _, _)
parse_jump_table_contents(t, p, acc) ==
    IF just(t, p, "Ident")
    THEN parse_jump_table_contents(t, p + 1,
             Append(acc, Spanned([kind |-> "JumpLabel", text |-> t[p + 1].s], p, p + 1)))
    ELSE IF just(t, p, "Num")
    THEN parse_jump_table_contents(t, p + 1,
             Append(acc, Spanned([kind |-> "Error",
                                  text |-> <<"N","u","m","b","e","r"," ","n","o","t"," ","e","x","p","e","c","t","e","d",":"," ">> \o t[p + 1].n],
                                 p, p + 1)))
    ELSE IF just(t, p, "Literal")
    THEN parse_jump_table_contents(t, p + 1,
             Append(acc, Spanned([kind |-> "Error", text |-> <<"L","i","t","e","r","a","l"," ","n","o","t"," ","e","x","p","e","c","t","e","d">>],
                                 p, p + 1)))
    ELSE Ok(p, acc)

parse_jump_table_kind(t, p) == just(t, p, "JumpTable") \/ just(t, p, "JumpTablePacked")

parse_jump_table(t, p) ==
    IF parse_jump_table_kind(t, p) /\ just(t, p + 1, "Ident")
    THEN Bind(parse_optional_paren(t, p + 2),
         LAMBDA q :
            Bind(nested_parser(t, q, parse_jump_table_contents(t, q + 1, <<>>),
                               "OpenBrace", "CloseBrace", "jumptable"),
            LAMBDA contents :
               IF contents.ok
               THEN [contents EXCEPT
                        !.out = Spanned([kind |-> "TableDefinition", name |-> t[p + 2].s,
                                         table_kind |-> t[p + 1].t,
                                         statements |-> contents.out], p, contents.p)]
               ELSE Err))
    ELSE Err

RECURSIVE StripZeroBytes(_)
StripZeroBytes(bytes) ==
    IF Len(bytes) > 1 /\ bytes[1] = 0 THEN StripZeroBytes(Tail(bytes)) ELSE bytes

\* bytes32_to_string(lit, false): the hexadecimal text of the literal from
\* its first non-zero byte
bytes32_to_string(b) == HexOf(StripZeroBytes(b))

\* extract_code_table: the text of a literal, or a Code token's text
extract_code_table(t, p) ==
    IF just(t, p, "Literal")
    THEN Ok(p + 1, Spanned([kind |-> "Code", text |-> bytes32_to_string(t[p + 1].b)],
                           p, p + 1))
    ELSE IF just(t, p, "Code")
    THEN Ok(p + 1, Spanned([kind |-> "Code", text |-> t[p + 1].s], p, p + 1))
    ELSE Err

parse_code_table(t, p) ==
    IF just(t, p, "CodeTable") /\ just(t, p + 1, "Ident")
    THEN Bind(parse_optional_paren(t, p + 2),
         LAMBDA q :
            Bind(nested_parser(t, q, extract_code_table(t, q + 1),
                               "OpenBrace", "CloseBrace", "codetable"),
            LAMBDA content :
               IF content.ok
               THEN [content EXCEPT
                        !.out = Spanned([kind |-> "TableDefinition", name |-> t[p + 2].s,
                                         table_kind |-> "CodeTable",
                                         statements |-> <<content.out>>], p, content.p)]
               ELSE Err))
    ELSE Err

table_parser(t, p) == Or(parse_jump_table(t, p), parse_code_table(t, p))

\* any().map_with_span(..): the token at p, whatever it is
ParsingError(t, p) ==
    IF p < Len(t)
    THEN Ok(p + 1, Spanned([kind |-> "ParsingError", token |-> t[p + 1],
                            message |-> "Expected keyword"], p, p + 1))
    ELSE Err

\* the alternatives of parse_define before the fallback, at the token
\* after Define
DefineGrammars(t, p) ==
    Or(Or(Or(Or(Or(parse_macro(t, p), parse_errors(t, p)), parse_abi_definition(t, p)),
                parse_abi_event_definition(t, p)), table_parser(t, p)), parse_constants(t, p))

\* parse_define with the fallback alternative left out
parse_define_strict(t, p) ==
    IF just(t, p, "Define") THEN DefineGrammars(t, p + 1) ELSE Err

parse_define(t, p) ==
    IF just(t, p, "Define")
    THEN Or(DefineGrammars(t, p + 1), ParsingError(t, p + 1))
    ELSE Err

\* Ast::parser
Ast_parser(t, p) == Or(parse_define(t, p), parse_include(t, p))

(***************************************************************************)
(* Parser inputs: token sequences built from statement-sized pieces        *)
(***************************************************************************)
MaxChunks == 3
MaxBody == 3

Ident(name) == TokS("Ident", name)
Num(n) == [Tok("Num") EXCEPT !.n = n]
Literal(digits) == [Tok("Literal") EXCEPT !.b = str_to_bytes32(digits)]
Primitive(k, n) == [Tok("PrimitiveType") EXCEPT !.k = k, !.n = n]
OpcodeTok(name) == [Tok("Opcode") EXCEPT !.k = OpcodeOf(name)]

\* #define constant X = 0x01
ConstX == <<Tok("Define"), Tok("Constant"), Ident(<<"X">>), Tok("Assign"), Literal(<<"0","1">>)>>

\* #define macro M() =
MacroHead ==
    <<Tok("Define"), Tok("Macro"), Ident(<<"M">>), Tok("OpenParen"), Tok("CloseParen"),
      Tok("Assign")>>

Chunks == {
    ConstX,
    <<Tok("Define"), Tok("Constant"), Ident(<<"Y">>), Tok("Assign"),
      Tok("FreeStoragePointer"), Tok("OpenParen"), Tok("CloseParen")>>,
    <<Tok("Define"), Tok("Constant"), Ident(<<"X">>), Num(<<"1">>)>>,
    <<Tok("Include"), TokS("Str", <<"a",".","h","u","f","f">>)>>,
    <<Tok("Include")>>,
    <<Tok("Define")>>,
    <<Ident(<<"a">>)>>,
    <<Tok("CloseBrace")>>,
    MacroHead \o <<Tok("Takes"), Tok("OpenParen"), Num(<<"1">>), Tok("CloseParen"),
                   Tok("Returns"), Tok("OpenParen"), Tok("CloseParen"),
                   Tok("OpenBrace"), OpcodeTok(<<"s","t","o","p">>), Tok("CloseBrace")>>,
    <<Tok("Define"), Tok("Fn"), Ident(<<"F">>), Tok("OpenParen"), Num(<<"1">>),
      Tok("OpenParen"), Tok("CloseParen"), Tok("CloseParen"), Tok("Assign"),
      Tok("OpenBrace"), Tok("CloseBrace")>>,
    <<Tok("Define"), Tok("Function"), Ident(<<"f">>), Tok("OpenParen"),
      Primitive("Uint", <<"2","5","6">>), Tok("Memory"), Ident(<<"a">>), Tok("Comma"),
      [Tok("ArrayType") EXCEPT !.k = "DynBytes", !.a = <<<<"0">>>>],
      Tok("CloseParen"), Tok("View"), Tok("Returns"), Tok("OpenParen"),
      Primitive("Bool", <<>>), Tok("CloseParen")>>,
    <<Tok("Define"), Tok("Function"), Ident(<<"g">>), Tok("OpenParen"), Tok("Assign"),
      Tok("CloseParen"), Tok("Pure")>>,
    <<Tok("Define"), Tok("Event"), Ident(<<"E">>), Tok("OpenParen"),
      Primitive("Address", <<>>), Tok("Indexed"), Ident(<<"a">>), Tok("CloseParen")>>,
    <<Tok("Define"), Tok("Error"), Ident(<<"E">>), Tok("OpenParen"),
      Primitive("Bytes", <<"4">>), Tok("CloseParen")>>,
    <<Tok("Define"), Tok("JumpTable"), Ident(<<"T">>), Tok("OpenBrace"), Ident(<<"a">>),
      Num(<<"7">>), Literal(<<"f","f">>), Tok("CloseBrace")>>,
    <<Tok("Define"), Tok("CodeTable"), Ident(<<"C">>), Tok("OpenParen"), Tok("CloseParen"),
      Tok("Assign"), Tok("OpenBrace"), Literal(<<"0","0","a","b">>), Tok("CloseBrace")>>,
    <<Tok("Define"), Tok("CodeTable"), Ident(<<"C">>), Tok("OpenBrace"),
      TokS("Code", <<"a","b">>), Ident(<<"a">>), Tok("CloseBrace")>> }

RECURSIVE Concat(_)
Concat(ss) == IF ss = <<>> THEN <<>> ELSE Head(ss) \o Concat(Tail(ss))

ChunkInputs == {Concat(cs) : cs \in SeqsUpTo(Chunks, MaxChunks)}

\* one macro whose body is any sequence of these tokens, alone or followed
\* by ConstX
BodyAlphabet == {
    OpcodeTok(<<"s","t","o","p">>), Ident(<<"a">>), Tok("Colon"), Tok("Assign"), Num(<<"1">>),
    Tok("Macro"), Tok("OpenParen"), Tok("OpenBrace"), Tok("CloseBrace") }

Bodies == SeqsUpTo(BodyAlphabet, MaxBody)

MacroThen(body, rest) == MacroHead \o <<Tok("OpenBrace")>> \o body \o <<Tok("CloseBrace")>> \o rest

MacroInputs == {MacroThen(body, rest) : body \in Bodies, rest \in {<<>>, ConstX}}

\* #define (macro|fn) MAIN() = [takes(n?)] [returns(n?)] { stop }
ClauseNumbers == {<<"0">>, <<"2">>, <<"1", "7">>}

ClauseForms(kw) ==
    {<<>>, <<Tok(kw), Tok("OpenParen"), Tok("CloseParen")>>}
    \cup {<<Tok(kw), Tok("OpenParen"), Num(n), Tok("CloseParen")>> : n \in ClauseNumbers}

MacroWith(ty, takes, returns) ==
    <<Tok("Define"), Tok(ty), Ident(<<"M","A","I","N">>), Tok("OpenParen"), Tok("CloseParen"),
      Tok("Assign")>> \o takes \o returns
    \o <<Tok("OpenBrace"), OpcodeTok(<<"s","t","o","p">>), Tok("CloseBrace")>>

ClauseInputs ==
    {MacroWith(ty, tk, rt) :
        ty \in {"Macro", "Fn"}, tk \in ClauseForms("Takes"), rt \in ClauseForms("Returns")}

\* #define constant K = <value tokens>, alone or followed by ConstX
ConstHead == <<Tok("Define"), Tok("Constant"), Ident(<<"K">>), Tok("Assign")>>

ValueForms == {
    <<>>,
    <<Literal(<<"0","1">>)>>,
    <<Literal(<<"f","f","e","e">>)>>,
    <<Tok("FreeStoragePointer"), Tok("OpenParen"), Tok("CloseParen")>>,
    <<Tok("FreeStoragePointer")>>,
    <<Tok("FreeStoragePointer"), Tok("OpenParen")>>,
    <<Tok("FreeStoragePointer"), Tok("OpenBrace"), Tok("CloseBrace")>>,
    <<Num(<<"1">>)>>,
    <<TokS("Code", HexRun(64, <<"a","b">>))>>,
    <<Ident(<<"a">>)>>,
    <<TokS("Str", <<"0","1">>)>>,
    <<OpcodeTok(<<"s","t","o","p">>)>>,
    <<Tok("OpenParen"), Literal(<<"0","1">>), Tok("CloseParen")>> }

ConstInputs == {ConstHead \o v \o rest : v \in ValueForms, rest \in {<<>>, ConstX}}

\* function balanceOf(params) <mutability> [returns (params)], the
\* parameters separated by commas
MaxParams == 2

ParamTypes == {
    <<Primitive("Address", <<>>)>>,
    <<Primitive("Uint", <<"2","5","6">>)>>,
    <<[Tok("ArrayType") EXCEPT !.k = "DynBytes", !.a = <<<<"2">>, <<"0">>>>]>> }

ParamForms ==
    {ty \o loc \o name :
        ty \in ParamTypes,
        loc \in {<<>>, <<Tok("Memory")>>},
        name \in {<<>>, <<Ident(<<"a">>)>>}}

RECURSIVE CommaLists(_)
CommaLists(n) ==
    IF n = 0 THEN {<<>>}
    ELSE IF n = 1 THEN {<<>>} \cup ParamForms
    ELSE CommaLists(n - 1)
         \cup {l \o <<Tok("Comma")>> \o f : l \in CommaLists(n - 1) \ {<<>>}, f \in ParamForms}

Mutabilities == {"View", "Payable", "NonPayable", "Pure"}

ReturnsForms ==
    {<<>>,
     <<Tok("Returns"), Tok("OpenParen"), Tok("CloseParen")>>,
     <<Tok("Returns"), Tok("OpenParen"), Primitive("Uint", <<"2","5","6">>), Tok("CloseParen")>>,
     <<Tok("Returns"), Tok("OpenParen"), Primitive("Bool", <<>>), Ident(<<"b">>), Tok("Comma"),
       Primitive("String", <<>>), Tok("Calldata"), Tok("Comma"),
       Primitive("Bytes", <<"4">>), Tok("Storage"), Ident(<<"c">>), Tok("CloseParen")>>}

FunctionDecl(params, mut, rets) ==
    <<Tok("Define"), Tok("Function"), Ident(<<"b","a","l","a","n","c","e","O","f">>), Tok("OpenParen")>> \o params
    \o <<Tok("CloseParen"), Tok(mut)>> \o rets

FunctionInputs ==
    {FunctionDecl(ps, mut, rets) :
        ps \in CommaLists(MaxParams), mut \in Mutabilities, rets \in ReturnsForms}

\* one definition of each kind whose bracketed part holds a token its
\* grammar does not take, with the kind of statement it defines
BrokenBracketForms == {
    [kind |-> "MacroDefinition",
     toks |-> <<Tok("Define"), Tok("Macro"), Ident(<<"M">>), Tok("OpenParen"), Tok("Assign"),
                Tok("CloseParen"), Tok("Assign"), Tok("OpenBrace"), OpcodeTok(<<"s","t","o","p">>),
                Tok("CloseBrace")>>],
    [kind |-> "MacroDefinition", toks |-> MacroThen(<<OpcodeTok(<<"s","t","o","p">>), Tok("Assign")>>, <<>>)],
    [kind |-> "AbiFunction",
     toks |-> FunctionDecl(<<Primitive("Address", <<>>), Tok("Assign")>>, "View", <<>>)],
    [kind |-> "AbiFunction",
     toks |-> FunctionDecl(<<>>, "View",
                  <<Tok("Returns"), Tok("OpenParen"), Tok("Assign"), Tok("CloseParen")>>)],
    [kind |-> "AbiError",
     toks |-> <<Tok("Define"), Tok("Error"), Ident(<<"E">>), Tok("OpenParen"), Tok("Assign"),
                Tok("CloseParen")>>],
    [kind |-> "AbiEvent",
     toks |-> <<Tok("Define"), Tok("Event"), Ident(<<"E">>), Tok("OpenParen"), Tok("Assign"),
                Tok("CloseParen")>>],
    [kind |-> "TableDefinition",
     toks |-> <<Tok("Define"), Tok("JumpTable"), Ident(<<"T">>), Tok("OpenBrace"),
                Ident(<<"a">>), Tok("Assign"), Tok("CloseBrace")>>],
    [kind |-> "TableDefinition",
     toks |-> <<Tok("Define"), Tok("CodeTable"), Ident(<<"C">>), Tok("OpenBrace"),
                Tok("Assign"), Tok("CloseBrace")>>] }

BrokenBracketInputs == {f.toks : f \in BrokenBracketForms}

\* the well-formed items of a macro body, each with the entry it stands for
BodyItems == {
    [toks |-> <<OpcodeTok(<<"s","t","o","p">>)>>,
     kind |-> "Opcode", name |-> <<>>, args |-> <<>>],
    [toks |-> <<Literal(<<"2","a">>)>>,
     kind |-> "HexLiteral", name |-> <<>>, args |-> <<>>],
    [toks |-> <<Ident(<<"f">>), Tok("OpenParen"), Tok("CloseParen")>>,
     kind |-> "MacroInvocation", name |-> <<"f">>, args |-> <<>>],
    [toks |-> <<Ident(<<"g">>), Tok("OpenParen"), Ident(<<"x">>), Tok("Comma"), Ident(<<"y">>),
                Tok("CloseParen")>>,
     kind |-> "MacroInvocation", name |-> <<"g">>, args |-> <<Valid(<<"x">>), Valid(<<"y">>)>>],
    [toks |-> <<Ident(<<"l">>), Tok("Colon")>>,
     kind |-> "JumpLabelDest", name |-> <<"l">>, args |-> <<>>],
    [toks |-> <<Ident(<<"j">>)>>,
     kind |-> "JumpLabel", name |-> <<"j">>, args |-> <<>>],
    [toks |-> <<Tok("LeftAngle"), Ident(<<"z">>), Tok("RightAngle")>>,
     kind |-> "ArgsInvocation", name |-> <<"z">>, args |-> <<>>] }

\* bodies of up to MaxBody items: the tokens and the items in their order
ItemBodies == SeqsUpTo(BodyItems, MaxBody)

RECURSIVE ItemTokens(_)
ItemTokens(items) ==
    IF items = <<>> THEN <<>> ELSE items[1].toks \o ItemTokens(Tail(items))

ItemInputs == {MacroThen(ItemTokens(items), <<>>) : items \in ItemBodies}

\* the tokens written where a macro definition expects an argument name,
\* each with the argument it is to be
ArgEntries == {
    [tok |-> Ident(<<"a">>), arg |-> Valid(<<"a">>)],
    [tok |-> Ident(<<"b">>), arg |-> Valid(<<"b">>)],
    [tok |-> Num(<<"7">>), arg |-> Invalid],
    [tok |-> Literal(<<"2","a">>), arg |-> Invalid],
    [tok |-> OpcodeTok(<<"s","t","o","p">>), arg |-> Invalid],
    [tok |-> Tok("Takes"), arg |-> Invalid],
    [tok |-> Primitive("Address", <<>>), arg |-> Invalid] }

ArgLists == SeqsUpTo(ArgEntries, MaxParams)

\* the pieces with sep between consecutive pieces
RECURSIVE Join(_, _)
Join(pieces, sep) ==
    IF pieces = <<>> THEN <<>>
    ELSE IF Len(pieces) = 1 THEN pieces[1]
    ELSE pieces[1] \o sep \o Join(Tail(pieces), sep)

\* #define macro M(<entries, comma-separated>) = { stop }
MacroWithArgs(entries) ==
    <<Tok("Define"), Tok("Macro"), Ident(<<"M">>), Tok("OpenParen")>>
    \o Join([i \in DOMAIN entries |-> <<entries[i].tok>>], <<Tok("Comma")>>)
    \o <<Tok("CloseParen"), Tok("Assign"), Tok("OpenBrace"), OpcodeTok(<<"s","t","o","p">>),
         Tok("CloseBrace")>>

ArgInputs == {MacroWithArgs(entries) : entries \in ArgLists}

\* a macro, a function and an event whose list is two entries with sep
\* between them
ListForms(sep) == {
    [kind |-> "MacroDefinition",
     toks |-> <<Tok("Define"), Tok("Macro"), Ident(<<"M">>), Tok("OpenParen"), Ident(<<"a">>)>>
              \o sep \o <<Ident(<<"b">>), Tok("CloseParen"), Tok("Assign"), Tok("OpenBrace"),
                           OpcodeTok(<<"s","t","o","p">>), Tok("CloseBrace")>>],
    [kind |-> "AbiFunction",
     toks |-> FunctionDecl(<<Primitive("Address", <<>>)>> \o sep
                           \o <<Primitive("Uint", <<"2", "5", "6">>), Ident(<<"x">>)>>,
                           "View", <<>>)],
    [kind |-> "AbiEvent",
     toks |-> <<Tok("Define"), Tok("Event"), Ident(<<"E">>), Tok("OpenParen"),
                Primitive("Address", <<>>), Ident(<<"x">>)>> \o sep
              \o <<Primitive("Uint", <<"2", "5", "6">>), Tok("CloseParen")>>] }

Separators == {<<>>, <<Tok("Comma")>>, <<Tok("Comma"), Tok("Comma")>>}

ListInputs == UNION {{f.toks : f \in ListForms(sep)} : sep \in Separators}

\* a macro whose body calls a builtin, the token carrying the name as
\* written or without its two underscores
BuiltinCall(name) ==
    MacroThen(<<TokS("BuiltinFunction", name), Tok("OpenParen"), Ident(<<"a">>),
                Tok("CloseParen")>>, <<>>)

BuiltinCallInputs ==
    {BuiltinCall(BUILTINS[i]) : i \in DOMAIN BUILTINS}
    \cup {BuiltinCall(SubSeq(BUILTINS[i], 3, Len(BUILTINS[i]))) : i \in DOMAIN BUILTINS}

\* #define codetable C { <body> }: bodies of no token, one token, two tokens
CodeBodies == {
    <<>>,
    <<TokS("Code", HexRun(64, <<"1","f">>))>>,
    <<Literal(<<"2","a">>)>>,
    <<Literal(<<"0","1","0","0">>)>>,
    <<Ident(<<"a">>)>>,
    <<Num(<<"1">>)>>,
    <<TokS("Code", HexRun(64, <<"1","f">>)), TokS("Code", HexRun(64, <<"1","f">>))>>,
    <<Literal(<<"2","a">>), Literal(<<"2","a">>)>>,
    <<Literal(<<"2","a">>), Ident(<<"a">>)>> }

CodeTableDecl(body) ==
    <<Tok("Define"), Tok("CodeTable"), Ident(<<"C">>), Tok("OpenBrace")>> \o body
    \o <<Tok("CloseBrace")>>

CodeTableInputs == {CodeTableDecl(body) : body \in CodeBodies}

\* #include followed by a string literal, by another token, by nothing
IncludePaths == {<<"a",".","h","u","f","f">>, <<>>, <<"_","_","_","_","P","A","R","S","I","N","G","_","E","R","R","O","R">>, <<"_","_","_","P","A","R","S","I","N","G","_","E","R","R","O","R">>}

IncludeInputs ==
    {<<Tok("Include"), TokS("Str", path)>> : path \in IncludePaths}
    \cup {<<Tok("Include"), TokS("Str", path)>> \o ConstX : path \in IncludePaths}
    \cup {<<Tok("Include")>>, <<Tok("Include")>> \o ConstX,
          <<Tok("Include"), Ident(<<"a">>)>>, <<Tok("Include"), Num(<<"1">>)>>}

ParserInputs ==
    ChunkInputs \cup MacroInputs \cup ClauseInputs \cup ConstInputs \cup FunctionInputs
    \cup BrokenBracketInputs \cup ItemInputs \cup ArgInputs \cup ListInputs
    \cup BuiltinCallInputs \cup CodeTableInputs \cup IncludeInputs

(***************************************************************************)
(* The parser: parser() of src/src/parser/mod.rs                           *)
(***************************************************************************)
ParseInit ==
    /\ ptoks \in ParserInputs
    /\ ppos = 0 /\ stmts = <<>> /\ perrs = 0 /\ pstatus = "parsing"
    /\ src = <<>> /\ lpos = 0 /\ ltoks = <<>> /\ ldiags = 0 /\ lstatus = "idle"

\* at_least(1).then_ignore(end()) with the repetition over: n statements
\* were parsed and the parser stands at p; every token has to be consumed
ParserResult_unended(t, p, n) == IF n >= 1 THEN "ok" ELSE "failed"

ParserResult(t, p, n) == IF n >= 1 /\ p = Len(t) THEN "ok" ELSE "failed"

\* one iteration of the repetition: a statement parsed where the parser stands
ParseStatement ==
    /\ pstatus = "parsing"
    /\ \E r \in {Ast_parser(ptoks, ppos)} :
          /\ r.ok
          /\ stmts' = Append(stmts, r.out)
          /\ ppos' = r.p
          /\ perrs' = perrs + r.errs
    /\ UNCHANGED <<ptoks, pstatus, lvars>>

\* the repetition ends where no statement starts
ParseFinish ==
    /\ pstatus = "parsing"
    /\ ~Ast_parser(ptoks, ppos).ok
    /\ pstatus' = ParserResult(ptoks, ppos, Len(stmts))
    /\ perrs' = IF ParserResult(ptoks, ppos, Len(stmts)) = "ok" THEN perrs ELSE perrs + 1
    /\ UNCHANGED <<ptoks, ppos, stmts, lvars>>

ParseNext == ParseStatement \/ ParseFinish

SpecParser == ParseInit /\ [][ParseNext]_vars

(***************************************************************************)
(* Properties of the parser                                                *)
(***************************************************************************)
Finished == pstatus \in {"ok", "failed"}

LastStmt == stmts[Len(stmts)]

\* the body between the braces of a macro fails the macro-body grammar:
\* the repetition of body entries stops before its last token
FailsBodyGrammar(body) == parse_macro_body(body, 0, <<>>).p < Len(body)

NoBraces(body) == \A i \in DOMAIN body : body[i].t \notin {"OpenBrace", "CloseBrace"}

BodyOf(t) == SubSeq(t, Len(MacroHead) + 2, Len(t) - Len(ConstX) - 1)

\* one macro with a broken body, then #define constant X = 0x01
IsBrokenMacroThenConst(t) ==
    /\ Len(t) >= Len(MacroHead) + 2 + Len(ConstX)
    /\ SubSeq(t, 1, Len(MacroHead) + 1) = MacroHead \o <<Tok("OpenBrace")>>
    /\ SubSeq(t, Len(t) - Len(ConstX), Len(t)) = <<Tok("CloseBrace")>> \o ConstX
    /\ NoBraces(BodyOf(t))
    /\ FailsBodyGrammar(BodyOf(t))

\* C1: when the input is one macro whose body fails the macro-body grammar
\* followed by a well-formed #define constant X = 0x01, the parser returns
\* a statement list whose last statement is ConstantDefinition{X, Literal(1)}
C1_BrokenMacroThenConstant ==
    (Finished /\ IsBrokenMacroThenConst(ptoks))
    => /\ pstatus = "ok"
       /\ Len(stmts) >= 1
       /\ LastStmt.v = [kind |-> "ConstantDefinition", name |-> <<"X">>,
                        value |-> [kind |-> "Literal", b |-> str_to_bytes32(<<"0", "1">>)]]

\* a statement starts at position j
IsStart(t, j) == j < Len(t) /\ t[j + 1].t \in {"Define", "Include"}

\* the position of the first Define or Include at or after p, or -1
NextStart(t, p) ==
    IF \E j \in p..(Len(t) - 1) : IsStart(t, j)
    THEN CHOOSE j \in p..(Len(t) - 1) :
            IsStart(t, j) /\ \A i \in p..(j - 1) : ~IsStart(t, i)
    ELSE -1

\* a well-formed statement starts at position j
WellFormedAt(t, j) ==
    /\ j >= 0
    /\ Ast_parser(t, j).ok
    /\ Ast_parser(t, j).errs = 0
    /\ Ast_parser(t, j).out.v.kind # "ParsingError"

\* C2: after a ParsingError statement the parser goes on to the next Define
\* or Include token and parses the well-formed statement that starts there,
\* whatever tokens lie between
C2_ResynchronisesAfterError ==
    Finished =>
        \A i \in DOMAIN stmts :
            (stmts[i].v.kind = "ParsingError"
             /\ WellFormedAt(ptoks, NextStart(ptoks, stmts[i].end)))
            => ppos > NextStart(ptoks, stmts[i].end)

\* C9: a finished parse with no statement parsed, or with a token left
\* after the last statement, is an error; success means at least one
\* statement and every token consumed
C9_SuccessNeedsStatementAndEnd ==
    (Finished /\ (Len(stmts) = 0 \/ ppos < Len(ptoks))) => pstatus = "failed"

C9_Witness == pstatus = "failed" /\ Len(stmts) >= 1 /\ ppos < Len(ptoks)

\* C10: when the parser stands at a Define followed by a token that starts
\* none of the macro, error, function, event, table and constant grammars,
\* the step records ParsingError{that token, "Expected keyword"} and
\* consumes exactly the Define and that token
C10_DefineFallback ==
    [][(/\ pstatus = "parsing"
        /\ just(ptoks, ppos, "Define")
        /\ ppos + 1 < Len(ptoks)
        /\ ~DefineGrammars(ptoks, ppos + 1).ok)
       => /\ stmts' = Append(stmts,
                 Spanned([kind |-> "ParsingError", token |-> ptoks[ppos + 2],
                          message |-> "Expected keyword"], ppos + 1, ppos + 2))
          /\ ppos' = ppos + 2]_vars

C10_Witness ==
    /\ pstatus = "parsing"
    /\ Len(stmts) >= 1
    /\ LastStmt.v.kind = "ParsingError"
    /\ ppos = LastStmt.end
    /\ ptoks[LastStmt.start].t = "Define"
    /\ ~DefineGrammars(ptoks, LastStmt.start).ok

\* the number a takes or returns clause stands for: its decimal, or 0 for
\* empty parentheses and for no clause at all
ClauseValue(clause) == IF Len(clause) = 4 THEN clause[3].n ELSE <<"0">>

\* the token position after the first Assign at or after p
AfterAssign(t, p) == (CHOOSE q \in p..Len(t) : t[q + 1].t = "Assign" /\
                         \A i \in p..(q - 1) : t[i + 1].t # "Assign") + 1

\* the clause of keyword kw that starts at position p, if one does
ClauseAt(t, p, kw) ==
    IF ~just(t, p, kw) THEN <<>>
    ELSE IF just(t, p + 2, "CloseParen") THEN SubSeq(t, p + 1, p + 3)
    ELSE SubSeq(t, p + 1, p + 4)

\* C11: a MacroDefinition has takes = n for takes(n), 0 for takes() and for
\* no takes clause, and independently the same for returns; MAIN with
\* takes(0) returns(0) { stop } gives name MAIN, its type, no args and the
\* body [Opcode(Stop)]
C11_TakesReturnsDefaults ==
    /\ \A i \in DOMAIN stmts :
          stmts[i].v.kind = "MacroDefinition" =>
             /\ stmts[i].v.takes.v
                   = ClauseValue(ClauseAt(ptoks, AfterAssign(ptoks, stmts[i].start), "Takes"))
             /\ stmts[i].v.returns.v
                   = ClauseValue(ClauseAt(ptoks,
                        AfterAssign(ptoks, stmts[i].start)
                           + Len(ClauseAt(ptoks, AfterAssign(ptoks, stmts[i].start), "Takes")),
                        "Returns"))
    /\ \A ty \in {"Macro", "Fn"}, tk \in ClauseForms("Takes"), rt \in ClauseForms("Returns") :
          (Finished /\ ptoks = MacroWith(ty, tk, rt)) =>
             /\ pstatus = "ok"
             /\ Len(stmts) = 1
             /\ stmts[1].v.kind = "MacroDefinition"
             /\ stmts[1].v.name = <<"M", "A", "I", "N">>
             /\ stmts[1].v.macro_type.v = ty
             /\ stmts[1].v.takes.v = ClauseValue(tk)
             /\ stmts[1].v.returns.v = ClauseValue(rt)
             /\ stmts[1].v.args = <<>>
             /\ Len(stmts[1].v.statements) = 1
             /\ stmts[1].v.statements[1].v = [kind |-> "Opcode", k |-> "Stop"]

C11_Witness ==
    /\ pstatus = "ok"
    /\ ptoks = MacroWith("Macro", <<>>, <<Tok("Returns"), Tok("OpenParen"),
                                          Num(<<"1", "7">>), Tok("CloseParen")>>)
    /\ stmts[1].v.takes.v = <<"0">>
    /\ stmts[1].v.returns.v = <<"1", "7">>

\* one of the body forms (opcode, macro invocation, hex literal, argument
\* invocation, builtin invocation, jump label) starts at position p
BodyForm(t, p) ==
    Or(Or(Or(Or(Or(
        IF just(t, p, "Opcode") THEN Ok(p + 1, <<>>) ELSE Err,
        parse_macro_invocation(t, p)),
        parse_hex_literal(t, p)),
        parse_arg_invocation(t, p)),
        parse_builtin_invocation(t, p)),
        parse_jump_label(t, p))

\* the entries a body is to have between positions p and e: one entry for
\* each form, and one UnexpectedToken entry for each token that starts none
RECURSIVE ExpectedEntries(_, _, _)
ExpectedEntries(t, p, e) ==
    IF p >= e THEN <<>>
    ELSE IF BodyForm(t, p).ok
    THEN <<[start |-> p, end |-> BodyForm(t, p).p, unexpected |-> FALSE]>>
         \o ExpectedEntries(t, BodyForm(t, p).p, e)
    ELSE <<[start |-> p, end |-> p + 1, unexpected |-> TRUE]>>
         \o ExpectedEntries(t, p + 1, e)

EntryShape(entries) ==
    [i \in DOMAIN entries |->
        [start |-> entries[i].start, end |-> entries[i].end,
         unexpected |-> entries[i].v.kind = "UnexpectedToken"]]

\* C12: in a macro body every token that starts none of the body forms is
\* one UnexpectedToken entry at its position, between the entries parsed
\* before and after it, and the macro is still defined with that body
C12_StrayTokensAreUnexpectedTokens ==
    \A body \in Bodies :
        (Finished /\ NoBraces(body) /\ ptoks = MacroThen(body, <<>>)) =>
            /\ pstatus = "ok"
            /\ stmts[1].v.kind = "MacroDefinition"
            /\ EntryShape(stmts[1].v.statements)
                  = ExpectedEntries(ptoks, Len(MacroHead) + 1,
                                    Len(MacroHead) + 1 + Len(body))

\* the parser stands at Define Constant <ident> =
AtConstantHead ==
    /\ pstatus = "parsing"
    /\ just(ptoks, ppos, "Define") /\ just(ptoks, ppos + 1, "Constant")
    /\ just(ptoks, ppos + 2, "Ident") /\ just(ptoks, ppos + 3, "Assign")

ValueIsLiteral == just(ptoks, ppos + 4, "Literal")

ValueIsFsp ==
    /\ just(ptoks, ppos + 4, "FreeStoragePointer")
    /\ just(ptoks, ppos + 5, "OpenParen")
    /\ just(ptoks, ppos + 6, "CloseParen")

\* C13: after constant <ident> = the step yields a ConstantDefinition
\* exactly when the value is a Literal token (value Literal with its bytes)
\* or FreeStoragePointer ( ) (value FreeStoragePointer); with any other
\* value no ConstantDefinition is added
C13_ConstantValueForms ==
    [][AtConstantHead =>
        /\ ValueIsLiteral =>
              stmts' = Append(stmts,
                  Spanned([kind |-> "ConstantDefinition", name |-> ptoks[ppos + 3].s,
                           value |-> [kind |-> "Literal", b |-> ptoks[ppos + 5].b]],
                          ppos + 1, ppos + 5))
        /\ ValueIsFsp =>
              stmts' = Append(stmts,
                  Spanned([kind |-> "ConstantDefinition", name |-> ptoks[ppos + 3].s,
                           value |-> [kind |-> "FreeStoragePointer", b |-> <<>>]],
                          ppos + 1, ppos + 7))
        /\ (~ValueIsLiteral /\ ~ValueIsFsp) =>
              \A i \in DOMAIN stmts' :
                  i > Len(stmts) => stmts'[i].v.kind # "ConstantDefinition"]_vars

\* FREE_STORAGE_POINTER without parentheses as the value: the statement
\* parsed is not a ConstantDefinition
C13_Witness ==
    /\ ptoks = ConstHead \o <<Tok("FreeStoragePointer")>>
    /\ ppos = 2
    /\ Len(stmts) = 1
    /\ stmts[1].v.kind = "ParsingError"

\* the position of the first token of kind k at or after p
FirstAt(t, p, k) ==
    CHOOSE q \in p..(Len(t) - 1) :
        t[q + 1].t = k /\ \A i \in p..(q - 1) : t[i + 1].t # k

\* the comma-separated pieces of a parameter list
RECURSIVE Segments(_)
Segments(s) ==
    IF s = <<>> THEN <<>>
    ELSE IF \E i \in DOMAIN s : s[i].t = "Comma"
    THEN <<SubSeq(s, 1, FirstAt(s, 0, "Comma"))>>
         \o Segments(SubSeq(s, FirstAt(s, 0, "Comma") + 2, Len(s)))
    ELSE <<s>>

LocationText(k) ==
    CASE k = "Memory" -> <<"m", "e", "m", "o", "r", "y">>
      [] k = "Storage" -> <<"s", "t", "o", "r", "a", "g", "e">>
      [] k = "Calldata" -> <<"c", "a", "l", "l", "d", "a", "t", "a">>

\* the parameter a piece declares: the kind of its type token, its data
\* location if it names one, its name or the empty string
ParamOf(seg) ==
    [kind |-> [k |-> FunctionParamTypeOf(seg[1].k), n |-> seg[1].n, a |-> seg[1].a],
     internal_type |->
        IF Len(seg) >= 2 /\ seg[2].t \in {"Memory", "Storage", "Calldata"}
        THEN <<LocationText(seg[2].t)>> ELSE <<>>,
     name |-> IF seg[Len(seg)].t = "Ident" THEN seg[Len(seg)].s ELSE <<>>]

ParamsOf(s) == [i \in DOMAIN Segments(s) |-> ParamOf(Segments(s)[i])]

\* the parameters between the parentheses that open at position p
ParamsAt(t, p) == ParamsOf(SubSeq(t, p + 2, FirstAt(t, p, "CloseParen")))

Values(spanned) == [i \in DOMAIN spanned |-> spanned[i].v]

\* the parameters between the parentheses that open at position p are
\* written with a comma between every two of them: no piece holds two types
CommaSeparatedAt(t, p) ==
    \A seg \in Range(Segments(SubSeq(t, p + 2, FirstAt(t, p, "CloseParen")))) :
        \A i \in 2..Len(seg) : seg[i].t \notin {"PrimitiveType", "ArrayType"}

\* C14: function <ident> ( params ) <mutability> [returns ( params )], the
\* parameters separated by commas, gives
\* one AbiFunction: inputs and outputs are the parameters in source order,
\* each with the kind of its type token, its location if given and its name
\* or the empty string; outputs are empty without a returns clause; the
\* mutability is the keyword given
C14_AbiFunctionFields ==
    /\ \A i \in DOMAIN stmts :
          (/\ stmts[i].v.kind = "AbiFunction"
           /\ CommaSeparatedAt(ptoks, stmts[i].start + 2)) =>
             /\ stmts[i].v.name = ptoks[stmts[i].start + 2].s
             /\ Values(stmts[i].v.inputs) = ParamsAt(ptoks, stmts[i].start + 2)
             /\ stmts[i].v.state_mutability.v
                   = ptoks[FirstAt(ptoks, stmts[i].start + 2, "CloseParen") + 2].t
             /\ Values(stmts[i].v.outputs)
                   = IF just(ptoks, FirstAt(ptoks, stmts[i].start + 2, "CloseParen") + 2,
                             "Returns")
                     THEN ParamsAt(ptoks, FirstAt(ptoks, stmts[i].start + 2, "CloseParen") + 3)
                     ELSE <<>>
    /\ (Finished /\ ptoks \in FunctionInputs) =>
          /\ pstatus = "ok"
          /\ Len(stmts) = 1
          /\ stmts[1].v.kind = "AbiFunction"

\* function balanceOf(address) view returns (uint256)
C14_Witness ==
    /\ pstatus = "ok"
    /\ ptoks = FunctionDecl(<<Primitive("Address", <<>>)>>, "View",
                            <<Tok("Returns"), Tok("OpenParen"),
                              Primitive("Uint", <<"2", "5", "6">>), Tok("CloseParen")>>)
    /\ Values(stmts[1].v.inputs)
          = <<[kind |-> [k |-> "Address", n |-> <<>>, a |-> <<>>],
               internal_type |-> <<>>, name |-> <<>>]>>
    /\ Values(stmts[1].v.outputs)
          = <<[kind |-> [k |-> "Uint", n |-> <<"2", "5", "6">>, a |-> <<>>],
               internal_type |-> <<>>, name |-> <<>>]>>
    /\ stmts[1].v.state_mutability.v = "View"

(***************************************************************************)
(* Display followed by lexing: a token is rendered by impl Display for     *)
(* Token and the text is given to the lexer                                *)
(***************************************************************************)
PunctuationTokens == {
    Tok("Assign"), Tok("OpenParen"), Tok("CloseParen"), Tok("OpenBracket"),
    Tok("CloseBracket"), Tok("OpenBrace"), Tok("CloseBrace"), Tok("LeftAngle"),
    Tok("RightAngle"), Tok("Comma"), Tok("Colon") }

KeywordTokens == {Tok(k) : k \in NamedTokens \ {"Newline"}}

PayloadTokens == {
    Ident(<<"a">>), Num(<<"1", "2">>), TokS("Str", <<"a",".","h","u","f","f">>), TokS("Str", <<"@","a">>),
    TokS("Str", <<"u","i","n","t","9","9","9","9","9","9","9","9","9","9","9","9","9","9","9","9","9","9","9","9">>), TokS("Str", <<"\n"," ","s","t","o","p">>),
    TokS("Code", HexRun(64, <<"a","b">>)),
    TokS("BuiltinFunction", <<"F","U","N","C","_","S","I","G">>), Literal(<<"0","1","f","f">>) }

RenderedTokens == PunctuationTokens \cup KeywordTokens \cup PayloadTokens

RelexInit ==
    /\ ptoks \in {<<tok>> : tok \in RenderedTokens}
    /\ src = <<>> /\ lpos = 0 /\ ltoks = <<>> /\ ldiags = 0 /\ lstatus = "idle"
    /\ ppos = 0 /\ stmts = <<>> /\ perrs = 0 /\ pstatus = "idle"

\* the token is rendered; its text is the lexer's source
Render ==
    /\ lstatus = "idle"
    /\ src' = to_string(ptoks[1])
    /\ lstatus' = "start"
    /\ UNCHANGED <<lpos, ltoks, ldiags, pvars>>

RelexNext ==
    Render \/ LexLeadingNewline \/ LexToken \/ LexSkipInvalid \/ LexPanic \/ LexFinish

SpecRelex == RelexInit /\ [][RelexNext]_vars

LexDone == lstatus \in {"ok", "failed", "panicked"}

\* C15: lexing the Display text of a punctuation or keyword token gives
\* that token again, followed only by the Newline that ends every token
\* list
C15_DisplayThenLexIsIdentity ==
    (LexDone /\ ptoks[1] \in PunctuationTokens \cup KeywordTokens) =>
        /\ lstatus = "ok"
        /\ Len(ltoks) = 2
        /\ ltoks[1].tok = ptoks[1]

(***************************************************************************)
(* Builtin function names: src/src/builtins.rs and parse_builtin_fn of     *)
(* src/src/parser/macros.rs                                                *)
(***************************************************************************)
BUILTINS_MAP == <<
    <<<<"_","_","t","a","b","l","e","s","t","a","r","t">>, "Tablestart">>,
    <<<<"_","_","t","a","b","l","e","s","i","z","e">>, "Tablesize">>,
    <<<<"_","_","c","o","d","e","s","i","z","e">>, "Codesize">>,
    <<<<"_","_","F","U","N","C","_","S","I","G">>, "FunctionSignature">>,
    <<<<"_","_","E","V","E","N","T","_","H","A","S","H">>, "EventHash">>,
    <<<<"_","_","E","R","R","O","R">>, "Error">>,
    <<<<"_","_","R","I","G","H","T","P","A","D">>, "RightPad">>,
    <<<<"_","_","D","Y","N","_","C","O","N","S","T","R","U","C","T","O","R","_","A","R","G">>, "DynConstructorArg">> >>

\* the match arms shared by From<String> and TryFrom<&String>
KindArms == <<
    <<<<"_","_","t","a","b","l","e","s","i","z","e">>, "Tablesize">>,
    <<<<"_","_","c","o","d","e","s","i","z","e">>, "Codesize">>,
    <<<<"_","_","t","a","b","l","e","s","t","a","r","t">>, "Tablestart">>,
    <<<<"_","_","F","U","N","C","_","S","I","G">>, "FunctionSignature">>,
    <<<<"_","_","E","V","E","N","T","_","H","A","S","H">>, "EventHash">>,
    <<<<"_","_","E","R","R","O","R">>, "Error">>,
    <<<<"_","_","R","I","G","H","T","P","A","D">>, "RightPad">>,
    <<<<"_","_","C","O","D","E","C","O","P","Y","_","D","Y","N","_","A","R","G">>, "DynConstructorArg">> >>

Found(kind) == [ok |-> TRUE, kind |-> kind, panic |-> FALSE]
NotFound == [ok |-> FALSE, kind |-> "", panic |-> FALSE]
Panicked == [ok |-> FALSE, kind |-> "", panic |-> TRUE]

\* the first pair of `table` whose key is `name`
Lookup(table, name) ==
    IF \E e \in Range(table) : e[1] = name
    THEN Found((CHOOSE e \in Range(table) : e[1] = name)[2])
    ELSE NotFound

\* BUILTINS.contains(name)
BuiltinsContains(name) == name \in Range(BUILTINS)

\* BUILTINS_MAP.get(name)
BuiltinsMapGet(name) == Lookup(BUILTINS_MAP, name)

\* impl TryFrom<&String> for BuiltinFunctionKind
try_from(value) == Lookup(KindArms, value)

\* impl From<String> for BuiltinFunctionKind: the last arm panics
from(value) == IF Lookup(KindArms, value).ok THEN Lookup(KindArms, value) ELSE Panicked

\* the closure of parse_builtin_fn: the builtin's token, or a jump label
parse_builtin_fn(ident) ==
    IF BuiltinsMapGet(ident).ok
    THEN [Tok("BuiltinFunctionKind") EXCEPT !.k = BuiltinsMapGet(ident).kind]
    ELSE TokS("JumpLabel", ident)

\* names to resolve: the listed names, the names of the match arms, and
\* near misses of each
ListedNames == Range(BUILTINS) \cup {e[1] : e \in Range(KindArms)}

BuiltinNames ==
    ListedNames
    \cup {SubSeq(n, 3, Len(n)) : n \in ListedNames}
    \cup {n \o <<"x">> : n \in ListedNames}
    \cup {<<>>, <<"_","_">>, <<"s","t","o","p">>, <<"_","_","F","U","N","C","_","s","i","g">>, <<"_","_","T","A","B","L","E","S","I","Z","E">>}

\* the name is held in src, the results of the lookups so far in stmts
BuiltinInit ==
    /\ src \in BuiltinNames
    /\ stmts = <<>> /\ pstatus = "resolving"
    /\ lpos = 0 /\ ltoks = <<>> /\ ldiags = 0 /\ lstatus = "idle"
    /\ ptoks = <<>> /\ ppos = 0 /\ perrs = 0

InList ==
    /\ pstatus = "resolving" /\ Len(stmts) = 0
    /\ stmts' = Append(stmts, [NotFound EXCEPT !.ok = BuiltinsContains(src)])
    /\ UNCHANGED <<lvars, ptoks, ppos, perrs, pstatus>>

InMap ==
    /\ pstatus = "resolving" /\ Len(stmts) = 1
    /\ stmts' = Append(stmts, BuiltinsMapGet(src))
    /\ UNCHANGED <<lvars, ptoks, ppos, perrs, pstatus>>

TryFrom ==
    /\ pstatus = "resolving" /\ Len(stmts) = 2
    /\ stmts' = Append(stmts, try_from(src))
    /\ UNCHANGED <<lvars, ptoks, ppos, perrs, pstatus>>

ParseBuiltinFn ==
    /\ pstatus = "resolving" /\ Len(stmts) = 3
    /\ stmts' = Append(stmts, [Found("") EXCEPT !.kind = parse_builtin_fn(src).t])
    /\ ptoks' = <<parse_builtin_fn(src)>>
    /\ UNCHANGED <<lvars, ppos, perrs, pstatus>>

From ==
    /\ pstatus = "resolving" /\ Len(stmts) = 4
    /\ stmts' = Append(stmts, from(src))
    /\ pstatus' = IF from(src).panic THEN "panicked" ELSE "resolved"
    /\ UNCHANGED <<lvars, ptoks, ppos, perrs>>

BuiltinNext == InList \/ InMap \/ TryFrom \/ ParseBuiltinFn \/ From

SpecBuiltins == BuiltinInit /\ [][BuiltinNext]_vars

\* C16: BUILTINS, BUILTINS_MAP and TryFrom recognise the same names, which
\* are the eight names of the list, and BUILTINS_MAP and TryFrom give the
\* same kind for each
C16_LookupPathsAgree ==
    Len(stmts) >= 3 =>
        /\ stmts[1].ok <=> stmts[2].ok
        /\ stmts[2].ok <=> stmts[3].ok
        /\ stmts[2].ok => stmts[2].kind = stmts[3].kind

\* C17: no conversion of a name to a builtin kind aborts the program
C17_ResolvingNeverPanics == pstatus # "panicked"

(***************************************************************************)
(* The front end: a run of the lexer on a source text, or a run of the     *)
(* parser on a token sequence                                              *)
(***************************************************************************)
FrontEndInit == LexInit \/ ParseInit

FrontEndNext == LexNext \/ ParseNext

SpecFrontEnd == FrontEndInit /\ [][FrontEndNext]_vars

DelimiterPairs == {
    <<"OpenParen", "CloseParen">>, <<"OpenBrace", "CloseBrace">>,
    <<"OpenBracket", "CloseBracket">> }

\* a recovery, a statement or a body entry that succeeds at position p of
\* the parser's input ends after p
ParserItemsAdvance ==
    \A p \in 0..Len(ptoks) :
        /\ \A d \in DelimiterPairs :
              nested_delimiters(ptoks, p, d[1], d[2], "body").ok
              => nested_delimiters(ptoks, p, d[1], d[2], "body").p > p
        /\ Ast_parser(ptoks, p).ok => Ast_parser(ptoks, p).p > p
        /\ MacroBodyEntry(ptoks, p).ok => MacroBodyEntry(ptoks, p).p > p

\* C18: every iteration of the lexer's and of the parser's repetition, a
\* recovery included, moves the position strictly forward and never past
\* the end of the input, so both end on every finite input
C18_StepsAdvance ==
    [][/\ (lstatus = "tokens" /\ lstatus' = "tokens")
             => (lpos' > lpos /\ lpos' <= Len(src))
       /\ (pstatus = "parsing" /\ pstatus' = "parsing")
             => (ppos' > ppos /\ ppos' <= Len(ptoks))
       /\ ParserItemsAdvance]_vars

\* the lexer has skipped an unrecognized character and stands after the
\* token that followed it
C18_Witness ==
    /\ lstatus = "tokens"
    /\ ldiags >= 1
    /\ Len(ltoks) >= 1
    /\ lpos = ltoks[Len(ltoks)].end
    /\ lpos >= 2

\* C19: when the content between the delimiters of a definition fails its
\* grammar, the parser recovers at the matching close delimiter and still
\* produces the statement the definition stands for
C19_RecoveryKeepsTheStatement ==
    \A f \in BrokenBracketForms :
        (Finished /\ ptoks = f.toks) =>
            /\ pstatus = "ok"
            /\ Len(stmts) = 1
            /\ stmts[1].v.kind = f.kind

\* C20: in a string literal every \uXXXX escape naming a surrogate becomes
\* U+FFFD and adds one diagnostic, every other \uXXXX escape becomes its code
\* point and adds none; the Str token is produced and the lexer goes on to
\* the token after it and to the end of the input
C20_InvalidEscapeIsReplaced ==
    \A f \in StringForms :
        src = f.raw =>
            /\ lstatus \notin {"failed", "panicked"}
            /\ Len(ltoks) >= 1 =>
                  /\ ltoks[1] = [tok |-> TokS("Str", f.text), start |-> 0,
                                 end |-> Len(f.raw) - 5]
                  /\ ldiags = f.bad
            /\ lstatus = "ok" =>
                  /\ Len(ltoks) = 3
                  /\ ltoks[2].tok.t = "Opcode" /\ ltoks[2].tok.k = "Stop"
                  /\ ltoks[3].tok.t = "Newline"
                  /\ lpos = Len(src)

C20_Witness ==
    /\ src = <<"\"","\\","u","D","8","0","0","\\","u","0","0","4","1","\""," ","s","t","o","p">>
    /\ lstatus = "ok"
    /\ ldiags = 1
    /\ ltoks[1].tok = TokS("Str", <<"uFFFD", "u0041">>)
    /\ Len(ltoks) = 3

\* C21: a Define or Include token is produced exactly when `#` is immediately
\* followed by the keyword; with spaces, tabs or line breaks between them no
\* such token is produced
C21_DirectiveNeedsAdjacentHash ==
    \A f \in DirectiveForms :
        (src = f.raw /\ lstatus = "ok") =>
            ((\E i \in 1..Len(ltoks) : ltoks[i].tok.t = f.kw) <=> f.gap = <<>>)

\* the source starts with a line break, after spaces or tabs if any
StartsWithLineBreak ==
    \E k \in 1..Len(src) :
        /\ src[k] = "\n"
        /\ \A j \in 1..(k - 1) : src[j] \in {" ", "\t"}

\* C22: when a source starts with line breaks, preceded by spaces or tabs or
\* not, and the output of the lexer holds a token other than Newline, the
\* first token of the output is not Newline
C22_NoLeadingNewline ==
    (/\ lstatus = "ok"
     /\ StartsWithLineBreak
     /\ \E i \in 1..Len(ltoks) : ltoks[i].tok.t # "Newline")
        => ltoks[1].tok.t # "Newline"

\* what a body entry says: its kind, its name, the arguments and its span
EntryFacts(e) ==
    [kind |-> e.v.kind,
     name |-> IF e.v.kind \in {"MacroInvocation", "JumpLabelDest", "JumpLabel",
                               "ArgsInvocation"}
              THEN e.v.name ELSE <<>>,
     args |-> IF e.v.kind = "MacroInvocation"
              THEN [i \in DOMAIN e.v.args |-> e.v.args[i].v] ELSE <<>>,
     start |-> e.start, end |-> e.end]

\* the entries of a body of items that starts at position p: one for each
\* item, over exactly the tokens of the item
RECURSIVE ItemEntries(_, _)
ItemEntries(items, p) ==
    IF items = <<>> THEN <<>>
    ELSE <<[kind |-> items[1].kind, name |-> items[1].name, args |-> items[1].args,
            start |-> p, end |-> p + Len(items[1].toks)]>>
         \o ItemEntries(Tail(items), p + Len(items[1].toks))

\* the opcode and the hex literal of a body keep their payload
KeepsPayload(e, t) ==
    /\ e.v.kind = "Opcode" => e.v.k = t[e.start + 1].k
    /\ e.v.kind = "HexLiteral" => e.v.b = t[e.start + 1].b

\* C23: a macro body of opcodes, hex literals, macro invocations, label
\* destinations, labels and argument invocations is parsed into one entry
\* for each of them, in source order, each entry over exactly the tokens of
\* its item: Ident ( args ) is a MacroInvocation, Ident : a JumpLabelDest,
\* any other Ident a JumpLabel, < Ident > an ArgsInvocation
C23_BodyEntriesFollowTheTokens ==
    \A items \in ItemBodies :
        (Finished /\ ptoks = MacroThen(ItemTokens(items), <<>>)) =>
            /\ pstatus = "ok"
            /\ Len(stmts) = 1
            /\ stmts[1].v.kind = "MacroDefinition"
            /\ [i \in DOMAIN stmts[1].v.statements |-> EntryFacts(stmts[1].v.statements[i])]
                  = ItemEntries(items, Len(MacroHead) + 1)
            /\ \A i \in DOMAIN stmts[1].v.statements :
                  KeepsPayload(stmts[1].v.statements[i], ptoks)

C23_Witness ==
    /\ Finished
    /\ ptoks = MacroThen(<<Ident(<<"j">>), Ident(<<"l">>), Tok("Colon"), Ident(<<"f">>),
                           Tok("OpenParen"), Tok("CloseParen")>>, <<>>)
    /\ Len(stmts) = 1
    /\ Len(stmts[1].v.statements) = 3
    /\ stmts[1].v.statements[1].v.kind = "JumpLabel"
    /\ stmts[1].v.statements[2].v.kind = "JumpLabelDest"
    /\ stmts[1].v.statements[3].v.kind = "MacroInvocation"

\* C24: in the argument list of a macro definition every token that is not
\* an identifier is recorded as Arg::Invalid at its position, the
\* identifiers stay Arg::Valid with their names, and the MacroDefinition is
\* produced
C24_NonIdentifierArgIsInvalid ==
    \A entries \in ArgLists :
        (Finished /\ ptoks = MacroWithArgs(entries)) =>
            /\ pstatus = "ok"
            /\ Len(stmts) = 1
            /\ stmts[1].v.kind = "MacroDefinition"
            /\ [i \in DOMAIN stmts[1].v.args |-> stmts[1].v.args[i].v]
                  = [i \in DOMAIN entries |-> entries[i].arg]

\* the entries of the list of a macro, a function or an event
ListOf(stmt) == IF stmt.kind = "MacroDefinition" THEN stmt.args ELSE stmt.inputs

\* the list of the definition was accepted as n entries
AcceptedWith(kind, n) ==
    /\ pstatus = "ok"
    /\ Len(stmts) = 1
    /\ stmts[1].v.kind = kind
    /\ Len(ListOf(stmts[1].v)) = n

\* C25: the argument list of a macro and the parameter lists of a function
\* and of an event are accepted as two entries only when exactly one Comma
\* separates the two entries
C25_EntriesNeedOneComma ==
    \A sep \in Separators : \A f \in ListForms(sep) :
        (Finished /\ ptoks = f.toks) =>
            (AcceptedWith(f.kind, 2) => sep = <<Tok("Comma")>>)

C27_BuiltinNameIsKept ==
    \A i \in DOMAIN BUILTINS :
        /\ (lstatus = "ok" /\ src = BUILTINS[i] \o <<"(","a",")">>) =>
              /\ ltoks[1].tok = TokS("BuiltinFunction", BUILTINS[i])
              /\ BuiltinsMapGet(ltoks[1].tok.s).ok
        /\ (Finished /\ ptoks = BuiltinCall(BUILTINS[i])) =>
              /\ pstatus = "ok"
              /\ stmts[1].v.kind = "MacroDefinition"
              /\ stmts[1].v.statements[1].v.kind = "BuiltinInvocation"
              /\ stmts[1].v.statements[1].v.name = BUILTINS[i]

\* the body is one Code token or one Literal token
IsCodeBody(body) == Len(body) = 1 /\ body[1].t \in {"Code", "Literal"}

\* the text of the Code entry of such a body
CodeText(body) ==
    IF body[1].t = "Code" THEN body[1].s ELSE bytes32_to_string(body[1].b)

\* C28: a code table with balanced braces is a TableDefinition of kind
\* CodeTable with exactly one entry: Code(text) when the body is a single
\* Code or Literal token, an Error placeholder for every other body, the
\* empty body and bodies of two tokens included
C28_CodeTableHasOneEntry ==
    \A body \in CodeBodies :
        (Finished /\ ptoks = CodeTableDecl(body)) =>
            /\ pstatus = "ok"
            /\ Len(stmts) = 1
            /\ stmts[1].v.kind = "TableDefinition"
            /\ stmts[1].v.table_kind = "CodeTable"
            /\ Len(stmts[1].v.statements) = 1
            /\ IF IsCodeBody(body)
               THEN stmts[1].v.statements[1].v = [kind |-> "Code", text |-> CodeText(body)]
               ELSE stmts[1].v.statements[1].v.kind = "Error"

\* C29: a word that starts with the text of a primitive type and goes on
\* with identifier characters lexes as one Ident token carrying the word
C29_WordIsOneIdent ==
    (lstatus = "ok" /\ src \in WordSources) =>
        /\ Kinds(ltoks) = <<"Ident", "Newline">>
        /\ ltoks[1].tok.s = src

\* C30: after the first statement of an input that starts with Include, a
\* diagnostic has been emitted exactly when the token after Include is not a
\* string literal; a string literal, whatever its text, gives
\* FileInclude{path: text} and no diagnostic
C30_ExpectedStringOnlyWithoutString ==
    (/\ ptoks \in IncludeInputs
     /\ pstatus = "parsing"
     /\ Len(stmts) = 1)
        => /\ stmts[1].v.kind = "FileInclude"
           /\ perrs >= 1 <=> ~just(ptoks, 1, "Str")
           /\ just(ptoks, 1, "Str") => stmts[1].v.path = ptoks[2].s
====
